---- MODULE Spec2Model ----
(***************************************************************************)
(* Team Crossword: the .puz decoder (parsePuz), the derivation of entries, *)
(* numbers and clues from the decoded grid, and the Crossword component's  *)
(* navigation / answer / ownership state machine.                          *)
(*                                                                         *)
(* Strings are sequences of character codes, byte buffers are sequences of *)
(* numbers 0..255.  The code's indices are 0-based and are kept 0-based in *)
(* every record; a sequence is read at index + 1.                          *)
(***************************************************************************)
EXTENDS Integers, Sequences, FiniteSets, TLC

VARIABLES
    \* ---- the Crossword component's state (useState hooks) ----
    puz,             \* ParsedPuz | null
    cells,           \* user-entered letters per cell
    status,          \* "unchecked" | "correct" | "incorrect" per cell
    owners,          \* team id | null per cell
    mode,            \* "across" | "down"
    activeIndex,     \* number | null
    teams,           \* Team[]
    selectedTeamId,  \* number | null
    nextTeamId,
    revealedAcross,
    revealedDown,
    pending,         \* file reads in flight (onFile suspended at its await)
    last,            \* the last event handled (history)
    \* ---- one call of parsePuz ----
    buf,             \* the ArrayBuffer given to parsePuz
    opts,            \* the ParseOptions given to parsePuz
    pc,              \* "start" | "done"
    result           \* what the call returned or threw

uiVars == <<puz, cells, status, owners, mode, activeIndex, teams, selectedTeamId,
            nextTeamId, revealedAcross, revealedDown, pending, last>>
parseVars == <<buf, opts, pc, result>>
vars == <<uiVars, parseVars>>

(***************************************************************************)
(* Bounds of the model.                                                    *)
(***************************************************************************)
MaxCells == 6      \* grids of at most this many cells are decoded
MaxClues == 4      \* clue strings in a decoded file
MaxTeams == 2      \* teams that can be registered
MaxPending == 2    \* file reads that can be in flight together

\* null of a number | null value (indices are >= 0, team ids >= 1)
Null == -1

\* character codes
NUL == 0
DOT == 46

(***************************************************************************)
(* Strings                                                                 *)
(***************************************************************************)
RECURSIVE Flatten(_)
Flatten(ss) == IF ss = <<>> THEN <<>> ELSE Head(ss) \o Flatten(Tail(ss))

\* String.prototype.toUpperCase on the code units 0..255
toUpperCaseChar(c) ==
    IF c \in 97..122 THEN <<c - 32>>
    ELSE IF c = 181 THEN <<924>>
    ELSE IF c = 223 THEN <<83, 83>>
    ELSE IF c = 255 THEN <<376>>
    ELSE IF c \in 224..254 /\ c # 247 THEN <<c - 32>>
    ELSE <<c>>

toUpperCase(s) == Flatten([k \in 1..Len(s) |-> toUpperCaseChar(s[k])])

\* the replace that strips nothing
stripNonAZ_none(s) == s

\* s.replace(/[^A-Z]/g, "")
IsAZ(c) == c \in 65..90

\* a replace that also lets the digits through
IsAZ09(c) == c \in (65..90) \cup (48..57)
stripNonAZ_keepDigits(s) == SelectSeq(s, IsAZ09)

stripNonAZ(s) == SelectSeq(s, IsAZ)

\* s.slice(0, 1)
slice01(s) == IF Len(s) >= 1 THEN <<s[1]>> ELSE <<>>

\* new TextDecoder("latin1"): the label latin1 names windows-1252, which
\* differs from ISO-8859-1 on 0x80..0x9F
latin1Char(b) ==
    CASE b = 128 -> 8364 [] b = 130 -> 8218 [] b = 131 -> 402  [] b = 132 -> 8222
      [] b = 133 -> 8230 [] b = 134 -> 8224 [] b = 135 -> 8225 [] b = 136 -> 710
      [] b = 137 -> 8240 [] b = 138 -> 352  [] b = 139 -> 8249 [] b = 140 -> 338
      [] b = 142 -> 381  [] b = 145 -> 8216 [] b = 146 -> 8217 [] b = 147 -> 8220
      [] b = 148 -> 8221 [] b = 149 -> 8226 [] b = 150 -> 8211 [] b = 151 -> 8212
      [] b = 152 -> 732  [] b = 153 -> 8482 [] b = 154 -> 353  [] b = 155 -> 8250
      [] b = 156 -> 339  [] b = 158 -> 382  [] b = 159 -> 376
      [] OTHER -> b

latin1Decode(slice) == [k \in 1..Len(slice) |-> latin1Char(slice[k])]

(***************************************************************************)
(* parsePuz                                                                *)
(***************************************************************************)
OFFSET_WIDTH == 44
OFFSET_HEIGHT == 45
OFFSET_NUM_CLUES == 46
OFFSET_SOLUTION == 52

ERR_RANGE == "RangeError: Offset is outside the bounds of the DataView"
ERR_DIMENSIONS == "Invalid .puz: missing width/height"
ERR_TRUNCATED == "Invalid .puz: truncated grid data"
ERR_UNTERMINATED == "Invalid .puz: unterminated string"

Throw(msg) == [ok |-> FALSE, error |-> msg]

\* bytes.slice(from, to)
bytesSlice(bytes, from, to) ==
    LET hi == IF to > Len(bytes) THEN Len(bytes) ELSE to
    IN  IF hi <= from THEN <<>> ELSE [k \in 1..(hi - from) |-> bytes[from + k]]

\* DataView.getUint8 / getUint16(.., true); both throw a RangeError when the
\* read runs past the end of the buffer
canRead(bytes, off, n) == off + n <= Len(bytes)
getUint8(bytes, off) == bytes[off + 1]
getUint16(bytes, off) == bytes[off + 1] + 256 * bytes[off + 2]

\* readNullTerminated: from cursor, [ok, str, cursor]
RECURSIVE findNul(_, _)
findNul(bytes, cursor) ==
    IF cursor < Len(bytes) /\ bytes[cursor + 1] # NUL
    THEN findNul(bytes, cursor + 1)
    ELSE cursor

\* readNullTerminated refusing a terminator that is the last byte
readNullTerminated_lastByte(bytes, cursor) ==
    LET start == cursor
        end == findNul(bytes, cursor)
    IN  IF end + 1 >= Len(bytes)
        THEN [ok |-> FALSE, str |-> <<>>, cursor |-> end]
        ELSE [ok |-> TRUE,
              str |-> latin1Decode(bytesSlice(bytes, start, end)),
              cursor |-> end + 1]

readNullTerminated(bytes, cursor) ==
    LET start == cursor
        end == findNul(bytes, cursor)
    IN  IF end >= Len(bytes)
        THEN [ok |-> FALSE, str |-> <<>>, cursor |-> end]
        ELSE [ok |-> TRUE,
              str |-> latin1Decode(bytesSlice(bytes, start, end)),
              cursor |-> end + 1]

\* n consecutive readNullTerminated calls: [ok, strs, cursor]
RECURSIVE readStrings(_, _, _, _)
readStrings(bytes, cursor, n, acc) ==
    IF n = 0 THEN [ok |-> TRUE, strs |-> acc, cursor |-> cursor]
    ELSE LET s == readNullTerminated(bytes, cursor)
         IN  IF ~s.ok THEN [ok |-> FALSE, strs |-> acc, cursor |-> s.cursor]
             ELSE readStrings(bytes, s.cursor, n - 1, Append(acc, s.str))

\* Build cell grid
buildGrid(solBytes, width, gridSize) ==
    [k \in 1..gridSize |->
        LET i == k - 1
            isBlock == solBytes[k] = DOT
        IN  [row |-> i \div width,
             col |-> i % width,
             index |-> i,
             isBlock |-> isBlock,
             solution |-> IF isBlock THEN <<DOT>> ELSE toUpperCaseChar(solBytes[k])]]

isBlockAt(grid, width, height, r, c) ==
    IF r < 0 \/ r >= height \/ c < 0 \/ c >= width THEN TRUE
    ELSE grid[r * width + c + 1].isBlock

\* while (cc < width && !isBlockAt(r, cc)) { cells.push(grid[r * width + cc]); cc++; }
RECURSIVE acrossRun(_, _, _, _, _)
acrossRun(grid, width, height, r, cc) ==
    IF cc < width /\ ~isBlockAt(grid, width, height, r, cc)
    THEN <<grid[r * width + cc + 1]>> \o acrossRun(grid, width, height, r, cc + 1)
    ELSE <<>>

\* the down run bounded by the width instead of the height
RECURSIVE downRun_widthBound(_, _, _, _, _)
downRun_widthBound(grid, width, height, rr, c) ==
    IF rr < width /\ ~isBlockAt(grid, width, height, rr, c)
    THEN <<grid[rr * width + c + 1]>> \o downRun_widthBound(grid, width, height, rr + 1, c)
    ELSE <<>>

\* while (rr < height && !isBlockAt(rr, c)) { cells.push(grid[rr * width + c]); rr++; }
RECURSIVE downRun(_, _, _, _, _)
downRun(grid, width, height, rr, c) ==
    IF rr < height /\ ~isBlockAt(grid, width, height, rr, c)
    THEN <<grid[rr * width + c + 1]>> \o downRun(grid, width, height, rr + 1, c)
    ELSE <<>>

startsAcrossAt(grid, width, height, r, c) ==
    c = 0 \/ isBlockAt(grid, width, height, r, c - 1)

\* the down start test looking at the left neighbour instead of the one above
startsDownAt_leftNeighbour(grid, width, height, r, c) ==
    r = 0 \/ isBlockAt(grid, width, height, r, c - 1)

startsDownAt(grid, width, height, r, c) ==
    r = 0 \/ isBlockAt(grid, width, height, r - 1, c)

\* a start numbered as if every entry took a number of its own
numAfter_perEntry(num, sa, sd) ==
    num + (IF sa THEN 1 ELSE 0) + (IF sd THEN 1 ELSE 0)

\* const num = nextNum++: the counter after a start position took num
numAfter(num, sa, sd) == num + 1

\* Build entries and numbers in a single scan; the two nested loops visit idx
\* = r * width + c in increasing order.  acc = [nextNum, across, down, starts]
RECURSIVE scanEntries(_, _, _, _, _)
scanEntries(grid, width, height, idx, acc) ==
    IF idx >= width * height THEN acc
    ELSE
      LET r == idx \div width
          c == idx % width
      IN
      IF grid[idx + 1].isBlock THEN scanEntries(grid, width, height, idx + 1, acc)
      ELSE
        LET sa == startsAcrossAt(grid, width, height, r, c)
            sd == startsDownAt(grid, width, height, r, c)
        IN
        IF ~sa /\ ~sd THEN scanEntries(grid, width, height, idx + 1, acc)
        ELSE
          LET num == acc.nextNum
              s == [number |-> num, startsAcross |-> sa, startsDown |-> sd,
                    acrossIndex |-> IF sa THEN Len(acc.across) ELSE Null,
                    downIndex |-> IF sd THEN Len(acc.down) ELSE Null]
              across1 == IF sa
                         THEN Append(acc.across,
                                [number |-> num, clue |-> <<>>,
                                 cells |-> acrossRun(grid, width, height, r, c)])
                         ELSE acc.across
              down1 == IF sd
                       THEN Append(acc.down,
                              [number |-> num, clue |-> <<>>,
                               cells |-> downRun(grid, width, height, r, c)])
                       ELSE acc.down
          IN  scanEntries(grid, width, height, idx + 1,
                [nextNum |-> numAfter(num, sa, sd), across |-> across1, down |-> down1,
                 starts |-> Append(acc.starts, s)])

buildEntries(grid, width, height) ==
    scanEntries(grid, width, height, 0,
        [nextNum |-> 1, across |-> <<>>, down |-> <<>>, starts |-> <<>>])

\* take() starting over at the first clue when the list is exhausted
takeClue_wrap(cluesRaw, clueIdx) ==
    IF Len(cluesRaw) = 0 THEN [clue |-> <<>>, clueIdx |-> clueIdx]
    ELSE [clue |-> cluesRaw[(clueIdx % Len(cluesRaw)) + 1], clueIdx |-> clueIdx + 1]

\* Clue assignment.  st = [across, down, clueIdx]
\* const take = () => (clueIdx < cluesRaw.length ? cluesRaw[clueIdx++] : "")
takeClue(cluesRaw, clueIdx) ==
    IF clueIdx < Len(cluesRaw)
    THEN [clue |-> cluesRaw[clueIdx + 1], clueIdx |-> clueIdx + 1]
    ELSE [clue |-> <<>>, clueIdx |-> clueIdx]

\* across[i].clue = take()
setAcrossClue(cluesRaw, st, i) ==
    LET t == takeClue(cluesRaw, st.clueIdx)
    IN  [st EXCEPT !.across[i + 1].clue = t.clue, !.clueIdx = t.clueIdx]

\* down[i].clue = take()
setDownClue(cluesRaw, st, i) ==
    LET t == takeClue(cluesRaw, st.clueIdx)
    IN  [st EXCEPT !.down[i + 1].clue = t.clue, !.clueIdx = t.clueIdx]

\* for (let i = 0; i < across.length; i++) across[i].clue = take()
RECURSIVE allAcross(_, _, _)
allAcross(cluesRaw, st, i) ==
    IF i < Len(st.across) THEN allAcross(cluesRaw, setAcrossClue(cluesRaw, st, i), i + 1)
    ELSE st

\* for (let i = 0; i < down.length; i++) down[i].clue = take()
RECURSIVE allDown(_, _, _)
allDown(cluesRaw, st, i) ==
    IF i < Len(st.down) THEN allDown(cluesRaw, setDownClue(cluesRaw, st, i), i + 1)
    ELSE st

\* one iteration of for (const s of starts) under interleaved-ad
startAD(cluesRaw, st, s) ==
    LET st1 == IF s.startsAcross /\ s.acrossIndex # Null
               THEN setAcrossClue(cluesRaw, st, s.acrossIndex) ELSE st
    IN  IF s.startsDown /\ s.downIndex # Null
        THEN setDownClue(cluesRaw, st1, s.downIndex) ELSE st1

\* one iteration of for (const s of starts) under interleaved-da
startDA(cluesRaw, st, s) ==
    LET st1 == IF s.startsDown /\ s.downIndex # Null
               THEN setDownClue(cluesRaw, st, s.downIndex) ELSE st
    IN  IF s.startsAcross /\ s.acrossIndex # Null
        THEN setAcrossClue(cluesRaw, st1, s.acrossIndex) ELSE st1

RECURSIVE interleavedAD(_, _, _, _)
interleavedAD(cluesRaw, st, starts, k) ==
    IF k > Len(starts) THEN st
    ELSE interleavedAD(cluesRaw, startAD(cluesRaw, st, starts[k]), starts, k + 1)

RECURSIVE interleavedDA(_, _, _, _)
interleavedDA(cluesRaw, st, starts, k) ==
    IF k > Len(starts) THEN st
    ELSE interleavedDA(cluesRaw, startDA(cluesRaw, st, starts[k]), starts, k + 1)

\* the default of the earlier parser: across, then down
clueOrderOf_acrossDown(o) == IF o.clueOrder = "" THEN "across-down" ELSE o.clueOrder

\* const order = opts.clueOrder || "interleaved-ad"; the absent option and
\* the empty string are both falsy
clueOrderOf(o) == IF o.clueOrder = "" THEN "interleaved-ad" ELSE o.clueOrder

assignClues(across, down, starts, cluesRaw, order) ==
    LET st0 == [across |-> across, down |-> down, clueIdx |-> 0]
    IN  IF order = "across-down"
          THEN allDown(cluesRaw, allAcross(cluesRaw, st0, 0), 0)
        ELSE IF order = "down-across"
          THEN allAcross(cluesRaw, allDown(cluesRaw, st0, 0), 0)
        ELSE IF order = "interleaved-ad"
          THEN interleavedAD(cluesRaw, st0, starts, 1)
        ELSE IF order = "interleaved-da"
          THEN interleavedDA(cluesRaw, st0, starts, 1)
        ELSE st0

parsePuz(b, o) ==
    IF ~canRead(b, OFFSET_WIDTH, 1) \/ ~canRead(b, OFFSET_HEIGHT, 1)
         \/ ~canRead(b, OFFSET_NUM_CLUES, 2)
    THEN Throw(ERR_RANGE)
    ELSE
    LET width == getUint8(b, OFFSET_WIDTH)
        height == getUint8(b, OFFSET_HEIGHT)
        numClues == getUint16(b, OFFSET_NUM_CLUES)
    IN
    IF width = 0 \/ height = 0 THEN Throw(ERR_DIMENSIONS)
    ELSE
    LET gridSize == width * height
        OFFSET_FILL == OFFSET_SOLUTION + gridSize
    IN
    IF Len(b) < OFFSET_FILL + gridSize THEN Throw(ERR_TRUNCATED)
    ELSE
    LET solBytes == bytesSlice(b, OFFSET_SOLUTION, OFFSET_SOLUTION + gridSize)
        head == readStrings(b, OFFSET_FILL + gridSize, 3, <<>>)
    IN
    IF ~head.ok THEN Throw(ERR_UNTERMINATED)
    ELSE
    LET clues == readStrings(b, head.cursor, numClues, <<>>)
    IN
    IF ~clues.ok THEN Throw(ERR_UNTERMINATED)
    ELSE
    LET grid == buildGrid(solBytes, width, gridSize)
        e == buildEntries(grid, width, height)
        order == clueOrderOf(o)
        a == assignClues(e.across, e.down, e.starts, clues.strs, order)
    IN  [ok |-> TRUE,
         width |-> width,
         height |-> height,
         title |-> head.strs[1],
         author |-> head.strs[2],
         copyright |-> head.strs[3],
         grid |-> grid,
         cluesRaw |-> clues.strs,
         across |-> a.across,
         down |-> a.down,
         clueOrder |-> order]

(***************************************************************************)
(* The earlier parsePuz: starts, numbering, across and down entries are    *)
(* built in separate passes over the grid; clues go across first, then     *)
(* down.                                                                   *)
(***************************************************************************)
ERR_CLUES == "Invalid .puz: not enough clues for grid"

\* Determine starts: acrossStarts and downStarts in scan order
RECURSIVE determineStarts(_, _, _, _, _)
determineStarts(grid, width, height, idx, acc) ==
    IF idx >= width * height THEN acc
    ELSE
      LET r == idx \div width
          c == idx % width
      IN  IF grid[idx + 1].isBlock
          THEN determineStarts(grid, width, height, idx + 1, acc)
          ELSE determineStarts(grid, width, height, idx + 1,
                 [acrossStarts |->
                     IF c = 0 \/ isBlockAt(grid, width, height, r, c - 1)
                     THEN Append(acc.acrossStarts, idx) ELSE acc.acrossStarts,
                  downStarts |->
                     IF r = 0 \/ isBlockAt(grid, width, height, r - 1, c)
                     THEN Append(acc.downStarts, idx) ELSE acc.downStarts])

\* a test that compares with the first start instead of the next one
isNextStart_first(startsSeq, i, idx) == Len(startsSeq) > 0 /\ startsSeq[1] = idx

\* ai < acrossStarts.length && acrossStarts[ai] === idx
isNextStart(startsSeq, i, idx) == i < Len(startsSeq) /\ startsSeq[i + 1] = idx

\* Assign numbers in scan order.  acc = [numbering, nextNum, ai, di]; the
\* Map numbering is a function from cell index to number
RECURSIVE assignNumbers(_, _, _, _, _)
assignNumbers(grid, size, st, idx, acc) ==
    IF idx >= size THEN acc
    ELSE IF grid[idx + 1].isBlock THEN assignNumbers(grid, size, st, idx + 1, acc)
    ELSE
      LET startsAcross == isNextStart(st.acrossStarts, acc.ai, idx)
          startsDown == isNextStart(st.downStarts, acc.di, idx)
      IN  IF startsAcross \/ startsDown
          THEN assignNumbers(grid, size, st, idx + 1,
                 [numbering |-> [x \in (DOMAIN acc.numbering) \cup {idx} |->
                                    IF x = idx THEN acc.nextNum ELSE acc.numbering[x]],
                  nextNum |-> acc.nextNum + 1,
                  ai |-> IF startsAcross THEN acc.ai + 1 ELSE acc.ai,
                  di |-> IF startsDown THEN acc.di + 1 ELSE acc.di])
          ELSE assignNumbers(grid, size, st, idx + 1, acc)

\* numbering.get(idx)!, which is undefined for a cell without a number
numberOf(numbering, idx) ==
    IF idx \in DOMAIN numbering THEN numbering[idx] ELSE Null

\* Build across entries (scan left-to-right, top-to-bottom)
RECURSIVE earlierAcross(_, _, _, _, _, _)
earlierAcross(grid, width, height, numbering, idx, acc) ==
    IF idx >= width * height THEN acc
    ELSE
      LET r == idx \div width
          c == idx % width
      IN  IF grid[idx + 1].isBlock
          THEN earlierAcross(grid, width, height, numbering, idx + 1, acc)
          ELSE IF ~(c = 0 \/ isBlockAt(grid, width, height, r, c - 1))
          THEN earlierAcross(grid, width, height, numbering, idx + 1, acc)
          ELSE earlierAcross(grid, width, height, numbering, idx + 1,
                 Append(acc, [number |-> numberOf(numbering, idx), clue |-> <<>>,
                              cells |-> acrossRun(grid, width, height, r, c)]))

\* Build down entries (scan top-to-bottom, left-to-right)
RECURSIVE earlierDown(_, _, _, _, _, _)
earlierDown(grid, width, height, numbering, idx, acc) ==
    IF idx >= width * height THEN acc
    ELSE
      LET r == idx \div width
          c == idx % width
      IN  IF grid[idx + 1].isBlock
          THEN earlierDown(grid, width, height, numbering, idx + 1, acc)
          ELSE IF ~(r = 0 \/ isBlockAt(grid, width, height, r - 1, c))
          THEN earlierDown(grid, width, height, numbering, idx + 1, acc)
          ELSE earlierDown(grid, width, height, numbering, idx + 1,
                 Append(acc, [number |-> numberOf(numbering, idx), clue |-> <<>>,
                              cells |-> downRun(grid, width, height, r, c)]))

\* the four passes of the earlier parser over one grid
earlierEntries(grid, width, height) ==
    LET st == determineStarts(grid, width, height, 0,
                  [acrossStarts |-> <<>>, downStarts |-> <<>>])
        nums == assignNumbers(grid, width * height, st, 0,
                  [numbering |-> <<>>, nextNum |-> 1, ai |-> 0, di |-> 0])
    IN  [across |-> earlierAcross(grid, width, height, nums.numbering, 0, <<>>),
         down |-> earlierDown(grid, width, height, nums.numbering, 0, <<>>)]

\* across[i].clue = cluesRaw[clueIdx++] || "" for the across entries, then
\* the same for the down entries
earlierClues(across, down, cluesRaw) ==
    [across |-> [i \in 1..Len(across) |->
                    [across[i] EXCEPT !.clue = cluesRaw[i]]],
     down |-> [i \in 1..Len(down) |->
                  [down[i] EXCEPT !.clue = cluesRaw[Len(across) + i]]]]

\* the earlier parsePuz(buf)
earlierParsePuz(b) ==
    IF ~canRead(b, OFFSET_WIDTH, 1) \/ ~canRead(b, OFFSET_HEIGHT, 1)
         \/ ~canRead(b, OFFSET_NUM_CLUES, 2)
    THEN Throw(ERR_RANGE)
    ELSE
    LET width == getUint8(b, OFFSET_WIDTH)
        height == getUint8(b, OFFSET_HEIGHT)
        numClues == getUint16(b, OFFSET_NUM_CLUES)
    IN
    IF width = 0 \/ height = 0 THEN Throw(ERR_DIMENSIONS)
    ELSE
    LET gridSize == width * height
        OFFSET_FILL == OFFSET_SOLUTION + gridSize
    IN
    IF Len(b) < OFFSET_FILL + gridSize THEN Throw(ERR_TRUNCATED)
    ELSE
    LET solBytes == bytesSlice(b, OFFSET_SOLUTION, OFFSET_SOLUTION + gridSize)
        head == readStrings(b, OFFSET_FILL + gridSize, 3, <<>>)
    IN
    IF ~head.ok THEN Throw(ERR_UNTERMINATED)
    ELSE
    LET clues == readStrings(b, head.cursor, numClues, <<>>)
    IN
    IF ~clues.ok THEN Throw(ERR_UNTERMINATED)
    ELSE
    LET grid == buildGrid(solBytes, width, gridSize)
        e == earlierEntries(grid, width, height)
    IN
    IF Len(clues.strs) < Len(e.across) + Len(e.down) THEN Throw(ERR_CLUES)
    ELSE
    LET a == earlierClues(e.across, e.down, clues.strs)
    IN  [ok |-> TRUE,
         width |-> width,
         height |-> height,
         title |-> head.strs[1],
         author |-> head.strs[2],
         copyright |-> head.strs[3],
         grid |-> grid,
         cluesRaw |-> clues.strs,
         across |-> a.across,
         down |-> a.down]

(***************************************************************************)
(* The files that are decoded: every block pattern on every grid of at     *)
(* most MaxCells cells with 0..MaxClues clues, and every prefix of a few   *)
(* small files (short headers, zero dimensions, cut grids, cut strings).   *)
(***************************************************************************)
Header(w, h, n) ==
    [k \in 1..OFFSET_SOLUTION |->
        IF k = OFFSET_WIDTH + 1 THEN w
        ELSE IF k = OFFSET_HEIGHT + 1 THEN h
        ELSE IF k = OFFSET_NUM_CLUES + 1 THEN n % 256
        ELSE IF k = OFFSET_NUM_CLUES + 2 THEN n \div 256
        ELSE 0]

\* solution byte of cell i: letters A, b, C, d, ... and "." for a block
SolByte(i, blocks) ==
    IF i \in blocks THEN DOT
    ELSE IF i % 2 = 0 THEN 65 + (i % 26) ELSE 97 + (i % 26)

FillByte(i, blocks) == IF i \in blocks THEN DOT ELSE 45

\* clue k of a generated file is the text "C<k>"
ClueText(k) == <<67, 48 + k>>

Terminated(strs) == Flatten([k \in 1..Len(strs) |-> strs[k] \o <<NUL>>])

MkPuz(w, h, blocks, n, tail) ==
    Header(w, h, n)
      \o [k \in 1..(w * h) |-> SolByte(k - 1, blocks)]
      \o [k \in 1..(w * h) |-> FillByte(k - 1, blocks)]
      \o Terminated(<<<<84>>, <<>>, <<169, 120>>>>)
      \o Terminated([k \in 1..n |-> ClueText(k)])
      \o tail

Prefixes(b) == {SubSeq(b, 1, n) : n \in 0..Len(b)}

GridBuffers ==
    UNION {
      UNION { { MkPuz(w, h, blocks, n, <<>>) : n \in 0..MaxClues }
              : blocks \in SUBSET (0..(w * h - 1)) }
      : <<w, h>> \in { d \in (1..MaxCells) \X (1..MaxCells) : d[1] * d[2] <= MaxCells } }

CutBuffers ==
    UNION { Prefixes(MkPuz(d[1], d[2], {1}, d[3], <<78, NUL>>))
            : d \in (0..2) \X (0..2) \X (0..2) }

ParseBuffers == GridBuffers \cup CutBuffers

ClueOrders ==
    {"", "across-down", "down-across", "interleaved-ad", "interleaved-da", "bogus"}

NoResult == [ok |-> FALSE, error |-> "none"]
NullPuz == [isNull |-> TRUE]

(***************************************************************************)
(* State after construction of the component (the useState initial values) *)
(***************************************************************************)
InitUI ==
    /\ puz = NullPuz
    /\ cells = <<>>
    /\ status = <<>>
    /\ owners = <<>>
    /\ mode = "across"
    /\ activeIndex = Null
    /\ teams = <<>>
    /\ selectedTeamId = Null
    /\ nextTeamId = 1
    /\ revealedAcross = <<>>
    /\ revealedDown = <<>>
    /\ pending = <<>>
    /\ last = [ev |-> "init", idx |-> Null]

(***************************************************************************)
(* SpecParse: one call of parsePuz on each file and each option            *)
(***************************************************************************)
InitParse ==
    /\ InitUI
    /\ buf \in ParseBuffers
    /\ opts \in [clueOrder : ClueOrders]
    /\ pc = "start"
    /\ result = NoResult

Decode ==
    /\ pc = "start"
    /\ pc' = "done"
    /\ result' = parsePuz(buf, opts)
    /\ UNCHANGED <<buf, opts, uiVars>>

NextParse == Decode

SpecParse == InitParse /\ [][NextParse]_vars

(***************************************************************************)
(* The Crossword component.  Every handler runs to completion on the state *)
(* of the last render; its setState calls are applied together.            *)
(***************************************************************************)
\* the files a user may pick, each with the clueOrder parameter of the page
\* URL: a 2x1 grid "Ab", a 2x2 grid "A." / "b." and a file cut inside its grid
Uploads ==
    { [bytes |-> MkPuz(2, 1, {}, 1, <<>>), clueOrder |-> "across-down"],
      [bytes |-> MkPuz(2, 2, {1, 3}, 3, <<>>), clueOrder |-> ""],
      [bytes |-> SubSeq(MkPuz(2, 1, {}, 1, <<>>), 1, OFFSET_SOLUTION + 3),
       clueOrder |-> ""] }

\* what an input's change event may carry: "a", "B", "", "1", "1b"
Values == { <<97>>, <<66>>, <<>>, <<49>>, <<49, 98>> }

LetterKeys == {"a"}
Keys == {"Tab", "ArrowRight", "ArrowLeft", "ArrowDown", "ArrowUp",
         "Backspace", "Delete", " "} \cup LetterKeys

\* the cells that render an <input>: the non-block cells of the puzzle
OpenCells ==
    IF puz = NullPuz THEN {}
    ELSE {i \in 0..(Len(puz.grid) - 1) : ~puz.grid[i + 1].isBlock}

\* goToClue moving the cursor without setting the mode
goToClue_keepMode(dir, clueIndex) ==
    IF puz = NullPuz THEN UNCHANGED <<mode, activeIndex>>
    ELSE
      LET arr == IF dir = "across" THEN puz.across ELSE puz.down
      IN  IF Len(arr) = 0 THEN UNCHANGED <<mode, activeIndex>>
          ELSE
            LET norm == ((clueIndex % Len(arr)) + Len(arr)) % Len(arr)
                target == arr[norm + 1]
            IN  IF Len(target.cells) >= 1
                THEN /\ mode' = mode
                     /\ activeIndex' = target.cells[1].index
                ELSE UNCHANGED <<mode, activeIndex>>

\* goToClue(dir, clueIndex): the mode and active cell it leaves
goToClue(dir, clueIndex) ==
    IF puz = NullPuz THEN UNCHANGED <<mode, activeIndex>>
    ELSE
      LET arr == IF dir = "across" THEN puz.across ELSE puz.down
      IN  IF Len(arr) = 0 THEN UNCHANGED <<mode, activeIndex>>
          ELSE
            LET norm == ((clueIndex % Len(arr)) + Len(arr)) % Len(arr)
                target == arr[norm + 1]
            IN  IF Len(target.cells) >= 1
                THEN /\ mode' = dir
                     /\ activeIndex' = target.cells[1].index
                ELSE UNCHANGED <<mode, activeIndex>>

\* A read in flight is the file, the clueOrder parameter and a history flag:
\* whether a decodable file has been picked after this one.
Read(u) == [bytes |-> u.bytes, clueOrder |-> u.clueOrder, superseded |-> FALSE]

superseded(reads, u) ==
    IF parsePuz(u.bytes, [clueOrder |-> u.clueOrder]).ok
    THEN [k \in 1..Len(reads) |-> [reads[k] EXCEPT !.superseded = TRUE]]
    ELSE reads

\* onFile up to its await: the read of the file is requested
onFileSelect(u) ==
    /\ puz = NullPuz                       \* the uploader is rendered only then
    /\ Len(pending) < MaxPending
    /\ pending' = Append(superseded(pending, u), Read(u))
    /\ last' = [ev |-> "file", idx |-> Null]
    /\ UNCHANGED <<puz, cells, status, owners, mode, activeIndex, teams,
                   selectedTeamId, nextTeamId, revealedAcross, revealedDown>>

RemoveAt(seq, k) == [j \in 1..(Len(seq) - 1) |-> IF j < k THEN seq[j] ELSE seq[j + 1]]

\* onFile clearing the session when parsePuz throws
onFileResolve_resetOnFailure(k) ==
    /\ k \in 1..Len(pending)
    /\ pending' = RemoveAt(pending, k)
    /\ LET parsed == parsePuz(pending[k].bytes, [clueOrder |-> pending[k].clueOrder])
       IN  IF ~parsed.ok
           THEN /\ puz' = NullPuz
                /\ cells' = <<>>
                /\ status' = <<>>
                /\ owners' = <<>>
                /\ revealedAcross' = <<>>
                /\ revealedDown' = <<>>
                /\ last' = [ev |-> "loadfail", idx |-> Null]
           ELSE /\ puz' = parsed
                /\ cells' = [i \in 1..Len(parsed.grid) |-> <<>>]
                /\ status' = [i \in 1..Len(parsed.grid) |-> "unchecked"]
                /\ owners' = [i \in 1..Len(parsed.grid) |-> Null]
                /\ revealedAcross' = [i \in 1..Len(parsed.across) |-> FALSE]
                /\ revealedDown' = [i \in 1..Len(parsed.down) |-> FALSE]
                /\ last' = [ev |-> "load", idx |-> Null,
                            superseded |-> pending[k].superseded]
    /\ UNCHANGED <<mode, activeIndex, teams, selectedTeamId, nextTeamId>>

\* onFile keeping the owners of a grid of the same size
onFileResolve_keepOwners(k) ==
    /\ k \in 1..Len(pending)
    /\ pending' = RemoveAt(pending, k)
    /\ LET parsed == parsePuz(pending[k].bytes, [clueOrder |-> pending[k].clueOrder])
       IN  IF ~parsed.ok
           THEN /\ last' = [ev |-> "loadfail", idx |-> Null]
                /\ UNCHANGED <<puz, cells, status, owners, revealedAcross, revealedDown>>
           ELSE /\ puz' = parsed
                /\ cells' = [i \in 1..Len(parsed.grid) |-> <<>>]
                /\ status' = [i \in 1..Len(parsed.grid) |-> "unchecked"]
                /\ owners' = IF Len(owners) = Len(parsed.grid) THEN owners
                             ELSE [i \in 1..Len(parsed.grid) |-> Null]
                /\ revealedAcross' = [i \in 1..Len(parsed.across) |-> FALSE]
                /\ revealedDown' = [i \in 1..Len(parsed.down) |-> FALSE]
                /\ last' = [ev |-> "load", idx |-> Null,
                            superseded |-> pending[k].superseded]
    /\ UNCHANGED <<mode, activeIndex, teams, selectedTeamId, nextTeamId>>

\* a load that keeps reveal arrays already allocated by an earlier load
onFileResolve_keepLatches(k) ==
    /\ k \in 1..Len(pending)
    /\ pending' = RemoveAt(pending, k)
    /\ LET parsed == parsePuz(pending[k].bytes, [clueOrder |-> pending[k].clueOrder])
       IN  IF ~parsed.ok
           THEN /\ last' = [ev |-> "loadfail", idx |-> Null]
                /\ UNCHANGED <<puz, cells, status, owners, revealedAcross, revealedDown>>
           ELSE /\ puz' = parsed
                /\ cells' = [i \in 1..Len(parsed.grid) |-> <<>>]
                /\ status' = [i \in 1..Len(parsed.grid) |-> "unchecked"]
                /\ owners' = [i \in 1..Len(parsed.grid) |-> Null]
                /\ revealedAcross' = IF puz # NullPuz THEN revealedAcross
                                     ELSE [i \in 1..Len(parsed.across) |-> FALSE]
                /\ revealedDown' = IF puz # NullPuz THEN revealedDown
                                   ELSE [i \in 1..Len(parsed.down) |-> FALSE]
                /\ last' = [ev |-> "load", idx |-> Null,
                            superseded |-> pending[k].superseded]
    /\ UNCHANGED <<mode, activeIndex, teams, selectedTeamId, nextTeamId>>

\* onFile after its await: parse and install, or reject when parsePuz throws
onFileResolve(k) ==
    /\ k \in 1..Len(pending)
    /\ pending' = RemoveAt(pending, k)
    /\ LET parsed == parsePuz(pending[k].bytes, [clueOrder |-> pending[k].clueOrder])
       IN  IF ~parsed.ok
           THEN /\ last' = [ev |-> "loadfail", idx |-> Null]
                /\ UNCHANGED <<puz, cells, status, owners, revealedAcross, revealedDown>>
           ELSE /\ puz' = parsed
                /\ cells' = [i \in 1..Len(parsed.grid) |-> <<>>]
                /\ status' = [i \in 1..Len(parsed.grid) |-> "unchecked"]
                /\ owners' = [i \in 1..Len(parsed.grid) |-> Null]
                /\ revealedAcross' = [i \in 1..Len(parsed.across) |-> FALSE]
                /\ revealedDown' = [i \in 1..Len(parsed.down) |-> FALSE]
                /\ last' = [ev |-> "load", idx |-> Null,
                            superseded |-> pending[k].superseded]
    /\ UNCHANGED <<mode, activeIndex, teams, selectedTeamId, nextTeamId>>

\* a check that judges only the cells not marked yet and clears the marks
\* it finds
checkedStatus_clearMarked(p, cs) ==
    [k \in 1..(p.width * p.height) |->
        LET cell == p.grid[k]
            val == toUpperCase(cs[k])
        IN  IF cell.isBlock THEN "unchecked"
            ELSE IF val = <<>> THEN "unchecked"
            ELSE IF status[k] # "unchecked" THEN "unchecked"
            ELSE IF val = cell.solution THEN "correct"
            ELSE "incorrect"]

\* checkPuzzle without the test for an empty letter
checkedStatus_emptyIncorrect(p, cs) ==
    [k \in 1..(p.width * p.height) |->
        LET cell == p.grid[k]
            val == toUpperCase(cs[k])
        IN  IF cell.isBlock THEN "unchecked"
            ELSE IF val = cell.solution THEN "correct"
            ELSE "incorrect"]

\* the status array checkPuzzle computes
checkedStatus(p, cs) ==
    [k \in 1..(p.width * p.height) |->
        LET cell == p.grid[k]
            val == toUpperCase(cs[k])
        IN  IF cell.isBlock THEN "unchecked"
            ELSE IF val = <<>> THEN "unchecked"
            ELSE IF val = cell.solution THEN "correct"
            ELSE "incorrect"]

checkPuzzle ==
    /\ puz # NullPuz
    /\ status' = checkedStatus(puz, cells)
    /\ last' = [ev |-> "check", idx |-> Null]
    /\ UNCHANGED <<puz, cells, owners, mode, activeIndex, teams, selectedTeamId,
                   nextTeamId, revealedAcross, revealedDown, pending>>

\* onFocus / onClick of the input of cell i
onCellFocus(i) ==
    /\ i \in OpenCells
    /\ activeIndex' = i
    /\ last' = [ev |-> "focus", idx |-> i]
    /\ UNCHANGED <<puz, cells, status, owners, mode, teams, selectedTeamId,
                   nextTeamId, revealedAcross, revealedDown, pending>>

\* auto-advance of onCellChange: the next non-block cell after idx, or idx
RECURSIVE skipBlocksRight(_, _, _)
skipBlocksRight(p, r, nc) ==
    IF nc < p.width /\ p.grid[r * p.width + nc + 1].isBlock
    THEN skipBlocksRight(p, r, nc + 1) ELSE nc

RECURSIVE skipBlocksDown(_, _, _)
skipBlocksDown(p, nr, c) ==
    IF nr < p.height /\ p.grid[nr * p.width + c + 1].isBlock
    THEN skipBlocksDown(p, nr + 1, c) ELSE nr

advanceIndex(p, m, idx) ==
    LET w == p.width
        h == p.height
        r == idx \div w
        c == idx % w
    IN  IF m = "across"
        THEN LET nc == skipBlocksRight(p, r, c + 1)
             IN  IF nc < w THEN r * w + nc ELSE idx
        ELSE LET nr == skipBlocksDown(p, r + 1, c)
             IN  IF nr < h THEN nr * w + c ELSE idx

\* the updater never clearing a mark
changedStatus_sticky(prev, idx, newVal) == prev

\* the updater clearing the incorrect mark as soon as a letter is typed
changedStatus_recheck(prev, idx, newVal) ==
    IF Len(prev) = 0 THEN prev
    ELSE IF prev[idx + 1] = "incorrect"
    THEN [prev EXCEPT ![idx + 1] = "unchecked"]
    ELSE prev

\* the setStatus updater of onCellChange: an incorrect cell stays marked
\* until it is emptied
changedStatus(prev, idx, newVal) ==
    IF Len(prev) = 0 THEN prev
    ELSE IF prev[idx + 1] = "incorrect"
    THEN [prev EXCEPT ![idx + 1] =
             IF newVal = <<>> THEN "unchecked" ELSE "incorrect"]
    ELSE prev

\* an owner updater that leaves every typed letter without an owner
changedOwner_unowned(prev, idx, v) == [prev EXCEPT ![idx + 1] = Null]

\* an owner updater that keeps the team that typed into the cell first
changedOwner_keepFirst(prev, idx, v) ==
    [prev EXCEPT ![idx + 1] =
        IF v = <<>> THEN Null
        ELSE IF prev[idx + 1] # Null THEN prev[idx + 1]
        ELSE selectedTeamId]

\* the setOwners updater of onCellChange
changedOwner(prev, idx, v) ==
    [prev EXCEPT ![idx + 1] = IF v # <<>> THEN selectedTeamId ELSE Null]

\* a guard that locks the cells marked incorrect instead of the correct ones
changeLocked_incorrectOnly(idx) == status[idx + 1] = "incorrect"

\* onCellChange without its guard
changeLocked_never(idx) == FALSE

\* the locked-cell guard of onCellChange
changeLocked(idx) == status[idx + 1] = "correct"

onCellChange(idx, value) ==
    /\ idx \in OpenCells
    /\ last' = [ev |-> "change", idx |-> idx]
    /\ UNCHANGED <<puz, mode, teams, selectedTeamId, nextTeamId,
                   revealedAcross, revealedDown, pending>>
    /\ IF changeLocked(idx)
       THEN UNCHANGED <<cells, owners, status, activeIndex>>
       ELSE
         LET v == stripNonAZ(toUpperCase(value))
             newVal == slice01(v)
             nextIndex == advanceIndex(puz, mode, idx)
         IN  /\ cells' = [cells EXCEPT ![idx + 1] = newVal]
             /\ owners' = changedOwner(owners, idx, v)
             /\ status' = changedStatus(status, idx, newVal)
             /\ activeIndex' = IF Len(v) >= 1 /\ puz # NullPuz /\ nextIndex # idx
                               THEN nextIndex ELSE activeIndex

\* the scan to the right giving up at the first block
scanRight_adjacentOnly(p, r, nc) ==
    IF nc >= p.width THEN Null
    ELSE IF ~p.grid[r * p.width + nc + 1].isBlock THEN r * p.width + nc
    ELSE Null

\* the first non-block cell the arrow keys and Backspace find, or Null
RECURSIVE scanRight(_, _, _)
scanRight(p, r, nc) ==
    IF nc >= p.width THEN Null
    ELSE IF ~p.grid[r * p.width + nc + 1].isBlock THEN r * p.width + nc
    ELSE scanRight(p, r, nc + 1)

RECURSIVE scanLeft(_, _, _)
scanLeft(p, r, nc) ==
    IF nc < 0 THEN Null
    ELSE IF ~p.grid[r * p.width + nc + 1].isBlock THEN r * p.width + nc
    ELSE scanLeft(p, r, nc - 1)

RECURSIVE scanDown(_, _, _)
scanDown(p, nr, c) ==
    IF nr >= p.height THEN Null
    ELSE IF ~p.grid[nr * p.width + c + 1].isBlock THEN nr * p.width + c
    ELSE scanDown(p, nr + 1, c)

RECURSIVE scanUp(_, _, _)
scanUp(p, nr, c) ==
    IF nr < 0 THEN Null
    ELSE IF ~p.grid[nr * p.width + c + 1].isBlock THEN nr * p.width + c
    ELSE scanUp(p, nr - 1, c)

\* a move that refuses to land on a cell marked correct
move_avoidLocked(p, nidx) ==
    IF nidx = Null THEN activeIndex
    ELSE IF nidx < 0 \/ nidx >= p.width * p.height THEN activeIndex
    ELSE IF p.grid[nidx + 1].isBlock THEN activeIndex
    ELSE IF status[nidx + 1] = "correct" THEN activeIndex
    ELSE nidx

\* move(nr, nc), given the index the scan found
move(p, nidx) ==
    IF nidx = Null THEN activeIndex
    ELSE IF nidx < 0 \/ nidx >= p.width * p.height THEN activeIndex
    ELSE IF p.grid[nidx + 1].isBlock THEN activeIndex
    ELSE nidx

\* maps that know no cell, so that every lookup falls back to entry 0
entryOf_fallback(arr, idx) == 0

\* cellToAcross.get(idx) ?? 0 and cellToDown.get(idx) ?? 0
entryOf(arr, idx) ==
    LET hits == {i \in 0..(Len(arr) - 1) :
                    \E j \in 1..Len(arr[i + 1].cells) : arr[i + 1].cells[j].index = idx}
    IN  IF hits = {} THEN 0
        ELSE CHOOSE i \in hits : \A j \in hits : j <= i

\* a Space key that always selects the mode down
toggled_down(m) == "down"

\* the setMode updater of the Space key
toggled(m) == IF m = "across" THEN "down" ELSE "across"

\* the guard at the top of onCellKeyDown
keyLocked(idx, key) ==
    /\ status[idx + 1] = "correct"
    /\ key \in {"Backspace", "Delete"} \cup LetterKeys

\* a step back that spares a cell marked correct
backspaceTarget_unlockedOnly(idx) ==
    LET w == puz.width
        r == idx \div w
        c == idx % w
        nidx == IF mode = "across" THEN scanLeft(puz, r, c - 1)
                ELSE scanUp(puz, r - 1, c)
    IN  IF cells[idx + 1] # <<>> THEN Null
        ELSE IF nidx # Null /\ status[nidx + 1] = "correct" THEN Null
        ELSE nidx

\* a step back taken even from a cell that holds a letter
backspaceTarget_always(idx) ==
    LET w == puz.width
        r == idx \div w
        c == idx % w
    IN  IF mode = "across" THEN scanLeft(puz, r, c - 1)
        ELSE scanUp(puz, r - 1, c)

\* a Delete that leaves the owner of the cell in place
deletedOwner_kept(prev, idx) == prev

\* the setOwners updater of the Delete case
deletedOwner(prev, idx) == [prev EXCEPT ![idx + 1] = Null]

\* the cell Backspace steps back to and clears, or Null
backspaceTarget(idx) ==
    LET w == puz.width
        r == idx \div w
        c == idx % w
    IN  IF cells[idx + 1] # <<>> THEN Null
        ELSE IF mode = "across" THEN scanLeft(puz, r, c - 1)
        ELSE scanUp(puz, r - 1, c)

\* the guard of the Delete case
deleteAllowed(idx) == status[idx + 1] # "correct"

onCellKeyDown(idx, key) ==
    /\ puz # NullPuz
    /\ idx \in OpenCells
    /\ last' = [ev |-> key, idx |-> idx]
    /\ UNCHANGED <<puz, teams, selectedTeamId, nextTeamId, revealedAcross,
                   revealedDown, pending>>
    /\ LET w == puz.width
           r == idx \div w
           c == idx % w
       IN
       IF keyLocked(idx, key)
         THEN UNCHANGED <<cells, status, owners, mode, activeIndex>>
       ELSE IF key = " "
         THEN /\ mode' = toggled(mode)
              /\ UNCHANGED <<cells, status, owners, activeIndex>>
       ELSE IF key = "Tab"
         THEN /\ UNCHANGED <<cells, status, owners>>
              /\ IF mode = "across"
                 THEN LET next == entryOf(puz.across, idx) + 1
                      IN  IF next < Len(puz.across) THEN goToClue("across", next)
                          ELSE goToClue("down", 0)
                 ELSE LET next == entryOf(puz.down, idx) + 1
                      IN  IF next < Len(puz.down) THEN goToClue("down", next)
                          ELSE goToClue("across", 0)
       ELSE IF key = "ArrowRight"
         THEN /\ mode' = "across"
              /\ activeIndex' = move(puz, scanRight(puz, r, c + 1))
              /\ UNCHANGED <<cells, status, owners>>
       ELSE IF key = "ArrowLeft"
         THEN /\ mode' = "across"
              /\ activeIndex' = move(puz, scanLeft(puz, r, c - 1))
              /\ UNCHANGED <<cells, status, owners>>
       ELSE IF key = "ArrowDown"
         THEN /\ mode' = "down"
              /\ activeIndex' = move(puz, scanDown(puz, r + 1, c))
              /\ UNCHANGED <<cells, status, owners>>
       ELSE IF key = "ArrowUp"
         THEN /\ mode' = "down"
              /\ activeIndex' = move(puz, scanUp(puz, r - 1, c))
              /\ UNCHANGED <<cells, status, owners>>
       ELSE IF key = "Backspace"
         THEN LET nidx == backspaceTarget(idx)
              IN  IF nidx = Null
                  THEN UNCHANGED <<cells, status, owners, mode, activeIndex>>
                  ELSE /\ activeIndex' = nidx
                       /\ cells' = [cells EXCEPT ![nidx + 1] = <<>>]
                       /\ status' = [status EXCEPT ![nidx + 1] = "unchecked"]
                       /\ owners' = [owners EXCEPT ![nidx + 1] = Null]
                       /\ UNCHANGED mode
       ELSE IF key = "Delete"
         THEN /\ UNCHANGED <<mode, activeIndex>>
              /\ IF deleteAllowed(idx)
                 THEN /\ cells' = [cells EXCEPT ![idx + 1] = <<>>]
                      /\ status' = [status EXCEPT ![idx + 1] = "unchecked"]
                      /\ owners' = deletedOwner(owners, idx)
                 ELSE UNCHANGED <<cells, status, owners>>
       ELSE UNCHANGED <<cells, status, owners, mode, activeIndex>>

\* a clue click that hides a clue already shown
onClueClick_toggle(dir, i) ==
    /\ puz # NullPuz
    /\ i \in 0..(Len(IF dir = "across" THEN puz.across ELSE puz.down) - 1)
    /\ IF dir = "across"
       THEN /\ revealedAcross' = [idx \in 1..Len(revealedAcross) |->
                                     IF idx - 1 = i THEN ~revealedAcross[idx]
                                     ELSE revealedAcross[idx]]
            /\ UNCHANGED revealedDown
       ELSE /\ revealedDown' = [idx \in 1..Len(revealedDown) |->
                                   IF idx - 1 = i THEN ~revealedDown[idx]
                                   ELSE revealedDown[idx]]
            /\ UNCHANGED revealedAcross
    /\ goToClue(dir, i)
    /\ last' = [ev |-> IF dir = "across" THEN "clueAcross" ELSE "clueDown", idx |-> i]
    /\ UNCHANGED <<puz, cells, status, owners, teams, selectedTeamId, nextTeamId,
                   pending>>

\* onClick of the clue items
onClueClick(dir, i) ==
    /\ puz # NullPuz
    /\ i \in 0..(Len(IF dir = "across" THEN puz.across ELSE puz.down) - 1)
    /\ IF dir = "across"
       THEN /\ revealedAcross' = [idx \in 1..Len(revealedAcross) |->
                                     IF idx - 1 = i THEN TRUE ELSE revealedAcross[idx]]
            /\ UNCHANGED revealedDown
       ELSE /\ revealedDown' = [idx \in 1..Len(revealedDown) |->
                                   IF idx - 1 = i THEN TRUE ELSE revealedDown[idx]]
            /\ UNCHANGED revealedAcross
    /\ goToClue(dir, i)
    /\ last' = [ev |-> IF dir = "across" THEN "clueAcross" ELSE "clueDown", idx |-> i]
    /\ UNCHANGED <<puz, cells, status, owners, teams, selectedTeamId, nextTeamId,
                   pending>>

\* an add-team form that never advances the id counter
onAddTeam_sameId ==
    /\ puz # NullPuz
    /\ Len(teams) < MaxTeams
    /\ teams' = Append(teams, [id |-> nextTeamId])
    /\ selectedTeamId' = nextTeamId
    /\ last' = [ev |-> "addTeam", idx |-> Null]
    /\ UNCHANGED <<puz, cells, status, owners, mode, activeIndex, revealedAcross,
                   revealedDown, pending, nextTeamId>>

\* onSubmit of the add-team form
onAddTeam ==
    /\ puz # NullPuz                       \* the teams panel is rendered only then
    /\ nextTeamId <= MaxTeams
    /\ teams' = Append(teams, [id |-> nextTeamId])
    /\ selectedTeamId' = nextTeamId
    /\ nextTeamId' = nextTeamId + 1
    /\ last' = [ev |-> "addTeam", idx |-> Null]
    /\ UNCHANGED <<puz, cells, status, owners, mode, activeIndex, revealedAcross,
                   revealedDown, pending>>

\* onClick of a team item
onTeamClick(k) ==
    /\ puz # NullPuz
    /\ k \in 1..Len(teams)
    /\ selectedTeamId' = teams[k].id
    /\ last' = [ev |-> "team", idx |-> Null]
    /\ UNCHANGED <<puz, cells, status, owners, mode, activeIndex, teams, nextTeamId,
                   revealedAcross, revealedDown, pending>>

\* the scores memo: teamId -> score
mapSet(m, k, v) == [x \in (DOMAIN m) \cup {k} |-> IF x = k THEN v ELSE m[x]]
mapGetOr0(m, k) == IF k \in DOMAIN m THEN m[k] ELSE 0

RECURSIVE initScores(_, _, _)
initScores(ts, k, m) ==
    IF k > Len(ts) THEN m ELSE initScores(ts, k + 1, mapSet(m, ts[k].id, 0))

\* scores counting every checked cell, right or wrong
scoresCounts_anyMarked(s, owner) == s # "unchecked" /\ owner # Null

\* whether a cell adds to its owner's score
scoresCounts(s, owner) == s = "correct" /\ owner # Null

RECURSIVE countScores(_, _, _, _)
countScores(st, ow, k, m) ==
    IF k > Len(st) THEN m
    ELSE IF scoresCounts(st[k], ow[k])
         THEN countScores(st, ow, k + 1, mapSet(m, ow[k], mapGetOr0(m, ow[k]) + 1))
         ELSE countScores(st, ow, k + 1, m)

scores == countScores(status, owners, 1, initScores(teams, 1, <<>>))

\* Events reach the input that has the focus, which onFocus makes the active
\* cell.  NextEdit is a session of answer entry: one file read at a time and
\* no clue clicks (which touch only the mode, the active cell and the reveal
\* latches).
NextEdit ==
    \/ \E u \in Uploads : pending = <<>> /\ onFileSelect(u) /\ UNCHANGED parseVars
    \/ \E k \in 1..Len(pending) : onFileResolve(k) /\ UNCHANGED parseVars
    \/ checkPuzzle /\ UNCHANGED parseVars
    \/ \E i \in OpenCells : onCellFocus(i) /\ UNCHANGED parseVars
    \/ \E value \in Values : onCellChange(activeIndex, value) /\ UNCHANGED parseVars
    \/ \E key \in Keys : onCellKeyDown(activeIndex, key) /\ UNCHANGED parseVars
    \/ onAddTeam /\ UNCHANGED parseVars
    \/ \E k \in 1..Len(teams) : onTeamClick(k) /\ UNCHANGED parseVars

Next ==
    \/ NextEdit
    \/ \E u \in Uploads : onFileSelect(u) /\ UNCHANGED parseVars
    \/ \E dir \in {"across", "down"} :
         \E i \in 0..(Len(cells) - 1) : onClueClick(dir, i) /\ UNCHANGED parseVars

\* NextSession is a session without teams: file reads may overlap (a second
\* file is picked while the first is still being read), and clues are clicked.
\* It types the text "a" or the empty text and presses four of the keys.
SessionValues == { <<97>>, <<>> }

SessionKeys == {"Tab", "ArrowDown", "Delete", " "}

NextSession ==
    \/ \E u \in Uploads : onFileSelect(u) /\ UNCHANGED parseVars
    \/ \E k \in 1..Len(pending) : onFileResolve(k) /\ UNCHANGED parseVars
    \/ checkPuzzle /\ UNCHANGED parseVars
    \/ \E i \in OpenCells : onCellFocus(i) /\ UNCHANGED parseVars
    \/ \E value \in SessionValues :
         onCellChange(activeIndex, value) /\ UNCHANGED parseVars
    \/ \E key \in SessionKeys : onCellKeyDown(activeIndex, key) /\ UNCHANGED parseVars
    \/ \E dir \in {"across", "down"} :
         \E i \in 0..(Len(cells) - 1) : onClueClick(dir, i) /\ UNCHANGED parseVars

\* NextNav is a session of pure navigation over every grid of at most
\* MaxCells cells: one file, then clicks on cells and navigation keys.
NavUploads ==
    UNION {
      { [bytes |-> MkPuz(d[1], d[2], blocks, 0, <<>>), clueOrder |-> ""]
        : blocks \in SUBSET (0..(d[1] * d[2] - 1)) }
      : d \in { d \in (1..MaxCells) \X (1..MaxCells) : d[1] * d[2] <= MaxCells } }

NavKeys == {"Tab", "ArrowRight", "ArrowLeft", "ArrowDown", "ArrowUp", " "}

NextNav ==
    \/ \E u \in NavUploads : pending = <<>> /\ onFileSelect(u) /\ UNCHANGED parseVars
    \/ \E k \in 1..Len(pending) : onFileResolve(k) /\ UNCHANGED parseVars
    \/ \E i \in OpenCells : onCellFocus(i) /\ UNCHANGED parseVars
    \/ \E key \in NavKeys : onCellKeyDown(activeIndex, key) /\ UNCHANGED parseVars

\* NextType is a session of typing on two grids: a 3x3 grid whose open
\* cells 0, 2 and 6 are separated by blocks, and the 2x1 grid "Ab".
TypeUploads ==
    { [bytes |-> MkPuz(3, 3, {1, 3, 4, 5, 7, 8}, 0, <<>>), clueOrder |-> ""],
      [bytes |-> MkPuz(2, 1, {}, 1, <<>>), clueOrder |-> "across-down"] }

TypeKeys == {" ", "Backspace", "Delete"} \cup LetterKeys

NextType ==
    \/ \E u \in TypeUploads : pending = <<>> /\ onFileSelect(u) /\ UNCHANGED parseVars
    \/ \E k \in 1..Len(pending) : onFileResolve(k) /\ UNCHANGED parseVars
    \/ checkPuzzle /\ UNCHANGED parseVars
    \/ \E i \in OpenCells : onCellFocus(i) /\ UNCHANGED parseVars
    \/ \E value \in Values : onCellChange(activeIndex, value) /\ UNCHANGED parseVars
    \/ \E key \in TypeKeys : onCellKeyDown(activeIndex, key) /\ UNCHANGED parseVars

\* NextReload is a session with teams in which reads of the 2x1 grid "Ab"
\* may overlap: the letter "a" is typed, answers are checked, clues are
\* clicked and teams are added before a later read resolves.
ReloadUploads == { [bytes |-> MkPuz(2, 1, {}, 1, <<>>), clueOrder |-> "across-down"] }

ReloadValues == { <<97>> }

NextReload ==
    \/ \E u \in ReloadUploads : onFileSelect(u) /\ UNCHANGED parseVars
    \/ \E k \in 1..Len(pending) : onFileResolve(k) /\ UNCHANGED parseVars
    \/ checkPuzzle /\ UNCHANGED parseVars
    \/ \E i \in OpenCells : onCellFocus(i) /\ UNCHANGED parseVars
    \/ \E value \in ReloadValues :
         onCellChange(activeIndex, value) /\ UNCHANGED parseVars
    \/ \E dir \in {"across", "down"} :
         \E i \in 0..(Len(cells) - 1) : onClueClick(dir, i) /\ UNCHANGED parseVars
    \/ onAddTeam /\ UNCHANGED parseVars

\* NextErase is a session of typing and erasing with teams, on the grids of
\* NextType: the letter "a" or the empty text arrives as a change event, and
\* Space, Backspace and Delete are pressed.
EraseValues == { <<97>>, <<>> }

EraseKeys == {" ", "Backspace", "Delete"}

NextErase ==
    \/ \E u \in TypeUploads : pending = <<>> /\ onFileSelect(u) /\ UNCHANGED parseVars
    \/ \E k \in 1..Len(pending) : onFileResolve(k) /\ UNCHANGED parseVars
    \/ checkPuzzle /\ UNCHANGED parseVars
    \/ \E i \in OpenCells : onCellFocus(i) /\ UNCHANGED parseVars
    \/ \E value \in EraseValues :
         onCellChange(activeIndex, value) /\ UNCHANGED parseVars
    \/ \E key \in EraseKeys : onCellKeyDown(activeIndex, key) /\ UNCHANGED parseVars
    \/ onAddTeam /\ UNCHANGED parseVars

\* NextMove is a session of navigation over checked answers with teams, on
\* the 2x1 grid "Ab" and the 2x2 grid with the open cells 0 and 2: the
\* letter "a" is typed and checked, every navigation key is pressed and
\* clues are clicked.
MoveUploads ==
    { [bytes |-> MkPuz(2, 1, {}, 1, <<>>), clueOrder |-> "across-down"],
      [bytes |-> MkPuz(2, 2, {1, 3}, 3, <<>>), clueOrder |-> ""] }

MoveValues == { <<97>> }

NextMove ==
    \/ \E u \in MoveUploads : pending = <<>> /\ onFileSelect(u) /\ UNCHANGED parseVars
    \/ \E k \in 1..Len(pending) : onFileResolve(k) /\ UNCHANGED parseVars
    \/ checkPuzzle /\ UNCHANGED parseVars
    \/ \E i \in OpenCells : onCellFocus(i) /\ UNCHANGED parseVars
    \/ \E value \in MoveValues :
         onCellChange(activeIndex, value) /\ UNCHANGED parseVars
    \/ \E key \in NavKeys : onCellKeyDown(activeIndex, key) /\ UNCHANGED parseVars
    \/ \E dir \in {"across", "down"} :
         \E i \in 0..(Len(cells) - 1) : onClueClick(dir, i) /\ UNCHANGED parseVars
    \/ onAddTeam /\ UNCHANGED parseVars

Init ==
    /\ InitUI
    /\ buf = <<>>
    /\ opts = [clueOrder |-> ""]
    /\ pc = "idle"
    /\ result = NoResult

Spec == Init /\ [][Next]_vars

SpecEdit == Init /\ [][NextEdit]_vars

SpecSession == Init /\ [][NextSession]_vars

SpecNav == Init /\ [][NextNav]_vars

SpecType == Init /\ [][NextType]_vars

SpecReload == Init /\ [][NextReload]_vars

SpecErase == Init /\ [][NextErase]_vars

SpecMove == Init /\ [][NextMove]_vars

(***************************************************************************)
(* Properties of the answer-entry session (SpecEdit)                       *)
(***************************************************************************)
\* the event of a step is the one the step records in last
InputOrDelete == {"change", "Delete"} \cup LetterKeys

\* C1: once a cell's status is correct, a letter-input event (the change
\* event or a letter key) or a Delete event on that cell leaves its letter,
\* its status and its owner as they were, and moves no cursor.
C1_LockedCellIgnoresInputAndDelete ==
    [][ (/\ last'.ev \in InputOrDelete
         /\ status[last'.idx + 1] = "correct")
        => (/\ puz' = puz
            /\ cells'[last'.idx + 1] = cells[last'.idx + 1]
            /\ status'[last'.idx + 1] = "correct"
            /\ owners'[last'.idx + 1] = owners[last'.idx + 1]
            /\ activeIndex' = activeIndex
            /\ mode' = mode) ]_vars

\* a change event has been handled on a cell that is correct and holds its letter
C1_Witness ==
    /\ last.ev = "change"
    /\ status[last.idx + 1] = "correct"
    /\ cells[last.idx + 1] = puz.grid[last.idx + 1].solution

\* C2: a Backspace event never clears a locked cell: every cell whose status
\* is correct keeps its letter, its status and its owner across the event,
\* whether Backspace was pressed on it or on the empty cell after it.
C2_BackspaceNeverClearsLocked ==
    [][ last'.ev = "Backspace"
        => \A k \in 1..Len(status) :
              status[k] = "correct"
              => (/\ cells'[k] = cells[k]
                  /\ status'[k] = "correct"
                  /\ owners'[k] = owners[k]) ]_vars

\* C3: right after a check, every cell's status is unchecked if the cell is
\* a block or holds no letter, correct if its uppercased letter is the
\* cell's solution, and incorrect otherwise, whatever the status was before.
C3_CheckComputesStatus ==
    last.ev = "check"
    => /\ Len(status) = puz.width * puz.height
       /\ \A k \in 1..Len(status) :
            status[k] =
              IF puz.grid[k].isBlock \/ cells[k] = <<>> THEN "unchecked"
              ELSE IF toUpperCase(cells[k]) = puz.grid[k].solution THEN "correct"
              ELSE "incorrect"

\* a check has marked one cell correct and another incorrect
C3_Witness ==
    /\ last.ev = "check"
    /\ \E k \in 1..Len(status) : status[k] = "correct"
    /\ \E k \in 1..Len(status) : status[k] = "incorrect"
    /\ \E k \in 1..Len(status) : puz.grid[k].isBlock

\* C4: the score of each registered team is the number of cells that are
\* correct and owned by that team, the teams are the only keys of the score
\* mapping, and a correct cell without an owner adds to no score.
TeamIds == {teams[k].id : k \in 1..Len(teams)}

C4_ScoreCountsOwnedCorrectCells ==
    /\ DOMAIN scores = TeamIds
    /\ \A t \in TeamIds :
          scores[t] = Cardinality({k \in 1..Len(status) :
                                      status[k] = "correct" /\ owners[k] = t})

\* two teams, one with a point and one with none, beside a correct cell
\* that nobody owns
C4_Witness ==
    /\ Len(teams) = 2
    /\ \E t \in TeamIds : scores[t] = 1
    /\ \E t \in TeamIds : scores[t] = 0
    /\ \E k \in 1..Len(status) : status[k] = "correct" /\ owners[k] = Null

(***************************************************************************)
(* Properties of the decoder (SpecParse)                                   *)
(***************************************************************************)
Decoded == pc = "done" /\ result.ok

GridIndices == 0..(result.width * result.height - 1)
IsOpen(i) == ~result.grid[i + 1].isBlock

\* the (entry, position) pairs of an entry array
Slots(arr) == UNION { {<<e, k>> : k \in 1..Len(arr[e].cells)} : e \in 1..Len(arr) }
SlotsOf(arr, i) == {p \in Slots(arr) : arr[p[1]].cells[p[2]].index = i}

\* the start conditions as the specification words them
HeadsAcross(i) ==
    IsOpen(i) /\ (i % result.width = 0 \/ result.grid[i].isBlock)
HeadsDown(i) ==
    IsOpen(i) /\ (i \div result.width = 0 \/ result.grid[i - result.width + 1].isBlock)
AcrossHeads == {i \in GridIndices : HeadsAcross(i)}
DownHeads == {i \in GridIndices : HeadsDown(i)}
StartPositions == AcrossHeads \cup DownHeads

FirstIndex(e) == e.cells[1].index
Entries == {result.across[k] : k \in 1..Len(result.across)}
             \cup {result.down[k] : k \in 1..Len(result.down)}

\* C5: in every decoded puzzle each non-block cell index occurs exactly once
\* in the cell lists of the across entries and exactly once in those of the
\* down entries, a block cell occurs in none, and every listed cell is a
\* cell of the grid.
C5_EveryOpenCellInOneAcrossOneDown ==
    Decoded
    => /\ \A i \in GridIndices :
            /\ Cardinality(SlotsOf(result.across, i)) = IF IsOpen(i) THEN 1 ELSE 0
            /\ Cardinality(SlotsOf(result.down, i)) = IF IsOpen(i) THEN 1 ELSE 0
       /\ \A p \in Slots(result.across) :
            result.across[p[1]].cells[p[2]] \in {result.grid[k] : k \in DOMAIN result.grid}
       /\ \A p \in Slots(result.down) :
            result.down[p[1]].cells[p[2]] \in {result.grid[k] : k \in DOMAIN result.grid}

\* a decoded grid of two rows and two columns or more with a block, an
\* across entry and a down entry of two cells or more
C5_Witness ==
    /\ Decoded
    /\ result.width >= 2 /\ result.height >= 2
    /\ \E i \in GridIndices : ~IsOpen(i)
    /\ \E k \in 1..Len(result.across) : Len(result.across[k].cells) >= 2
    /\ \E k \in 1..Len(result.down) : Len(result.down[k].cells) >= 2

\* C6: the number of an entry is the rank of its start cell among the
\* entry-start positions in row-major order, so the numbers are 1, 2, 3, ...
\* without a gap or a repeat, grow with the start index, and an across and a
\* down entry that start on the same cell carry the same number.
C6_NumbersFollowScanOrder ==
    Decoded
    => /\ \A e \in Entries :
            /\ e.cells # <<>>
            /\ e.number = Cardinality({s \in StartPositions : s <= FirstIndex(e)})
       /\ {e.number : e \in Entries} = 1..Cardinality(StartPositions)

\* a decoded grid with three entry-start positions, one of them heading
\* both an across and a down entry and one heading a single entry
C6_Witness ==
    /\ Decoded
    /\ Cardinality(StartPositions) >= 3
    /\ \E a \in 1..Len(result.across), d \in 1..Len(result.down) :
          /\ FirstIndex(result.across[a]) = FirstIndex(result.down[d])
          /\ result.across[a].number = result.down[d].number
          /\ result.across[a].number >= 2
    /\ AcrossHeads # DownHeads

\* C7: the across entries start exactly at the open cells in column 0 or
\* right of a block, the down entries exactly at the open cells in row 0 or
\* below a block, both arrays are in scan order of their start cells, and an
\* entry's cell list is the whole run of open cells from its start to the
\* next block or the grid edge, in reading order, runs of one cell included.
IsAcrossRun(e) ==
    LET s == FirstIndex(e)
        n == Len(e.cells)
    IN  /\ \A k \in 1..n :
              /\ s + k - 1 \in GridIndices
              /\ (s + k - 1) \div result.width = s \div result.width
              /\ e.cells[k] = result.grid[s + k]
              /\ IsOpen(s + k - 1)
        /\ \/ (s + n) % result.width = 0
           \/ ~IsOpen(s + n)

IsDownRun(e) ==
    LET s == FirstIndex(e)
        n == Len(e.cells)
    IN  /\ \A k \in 1..n :
              /\ s + (k - 1) * result.width \in GridIndices
              /\ e.cells[k] = result.grid[s + (k - 1) * result.width + 1]
              /\ IsOpen(s + (k - 1) * result.width)
        /\ \/ s + n * result.width \notin GridIndices
           \/ ~IsOpen(s + n * result.width)

InScanOrder(arr) ==
    \A j, k \in 1..Len(arr) : j < k => FirstIndex(arr[j]) < FirstIndex(arr[k])

C7_EntriesAreMaximalRuns ==
    Decoded
    => /\ \A e \in Entries : e.cells # <<>>
       /\ {FirstIndex(result.across[k]) : k \in 1..Len(result.across)} = AcrossHeads
       /\ {FirstIndex(result.down[k]) : k \in 1..Len(result.down)} = DownHeads
       /\ InScanOrder(result.across)
       /\ InScanOrder(result.down)
       /\ \A k \in 1..Len(result.across) : IsAcrossRun(result.across[k])
       /\ \A k \in 1..Len(result.down) : IsDownRun(result.down[k])

\* a decoded grid with a block, a one-cell across entry, a longer across
\* entry and a down entry that starts below a block
C7_Witness ==
    /\ Decoded
    /\ \E k \in 1..Len(result.across) : Len(result.across[k].cells) = 1
    /\ \E k \in 1..Len(result.across) : Len(result.across[k].cells) >= 2
    /\ \E k \in 1..Len(result.down) :
          /\ FirstIndex(result.down[k]) >= result.width
          /\ Len(result.down[k].cells) >= 2

\* C8: position (from 1) of the raw clue an entry consumes under each policy
Before(heads, i) == Cardinality({s \in heads : s < i})
UpTo(heads, i) == Cardinality({s \in heads : s <= i})

AcrossCluePos(order, k) ==
    LET i == FirstIndex(result.across[k])
    IN  IF order = "across-down" THEN k
        ELSE IF order = "down-across" THEN Len(result.down) + k
        ELSE IF order = "interleaved-ad" THEN Before(AcrossHeads, i) + Before(DownHeads, i) + 1
        ELSE Before(AcrossHeads, i) + UpTo(DownHeads, i) + 1

DownCluePos(order, k) ==
    LET i == FirstIndex(result.down[k])
    IN  IF order = "across-down" THEN Len(result.across) + k
        ELSE IF order = "down-across" THEN k
        ELSE IF order = "interleaved-ad" THEN UpTo(AcrossHeads, i) + Before(DownHeads, i) + 1
        ELSE Before(AcrossHeads, i) + Before(DownHeads, i) + 1

Policies == {"across-down", "down-across", "interleaved-ad", "interleaved-da"}
RequestedPolicy == IF opts.clueOrder = "" THEN "interleaved-ad" ELSE opts.clueOrder

\* C8: under each of the four policies the raw clues are handed out in file
\* order, one per entry: across then down, down then across, or along the
\* entry-start positions with across first or down first; an entry whose
\* turn comes while clues are left gets the clue of its turn, and with no
\* policy given the across-first interleaving is the one used.
C8_CluesConsumedInPolicyOrder ==
    (Decoded /\ RequestedPolicy \in Policies)
    => /\ result.clueOrder = RequestedPolicy
       /\ \A k \in 1..Len(result.across) :
            AcrossCluePos(RequestedPolicy, k) <= Len(result.cluesRaw)
            => result.across[k].clue = result.cluesRaw[AcrossCluePos(RequestedPolicy, k)]
       /\ \A k \in 1..Len(result.down) :
            DownCluePos(RequestedPolicy, k) <= Len(result.cluesRaw)
            => result.down[k].clue = result.cluesRaw[DownCluePos(RequestedPolicy, k)]

\* no policy given, two across and two down entries, clues for all of them,
\* and the first down entry takes the second clue of the file
C8_Witness ==
    /\ Decoded
    /\ opts.clueOrder = ""
    /\ Len(result.across) >= 2 /\ Len(result.down) >= 2
    /\ Len(result.cluesRaw) >= Len(result.across) + Len(result.down)
    /\ result.down[1].clue = result.cluesRaw[2]
    /\ result.across[2].clue # result.cluesRaw[2]

\* C9: a well-formed file is one that holds the header, non-zero
\* dimensions, both grid planes and the NUL bytes of its 3 + clueCount strings
NulsFrom(b, from) == Cardinality({k \in (from + 1)..Len(b) : b[k] = NUL})

WellFormed(b) ==
    /\ Len(b) >= OFFSET_SOLUTION
    /\ b[OFFSET_WIDTH + 1] > 0
    /\ b[OFFSET_HEIGHT + 1] > 0
    /\ Len(b) >= OFFSET_SOLUTION + 2 * b[OFFSET_WIDTH + 1] * b[OFFSET_HEIGHT + 1]
    /\ NulsFrom(b, OFFSET_SOLUTION + 2 * b[OFFSET_WIDTH + 1] * b[OFFSET_HEIGHT + 1])
         >= 3 + b[OFFSET_NUM_CLUES + 1] + 256 * b[OFFSET_NUM_CLUES + 2]

\* C9: decoding a well-formed file succeeds however many clues it holds,
\* and under each policy every entry whose turn comes after the raw clue
\* list is exhausted has the empty clue.
C9_ExhaustedCluesAreEmpty ==
    (pc = "done" /\ WellFormed(buf))
    => /\ result.ok
       /\ Len(result.cluesRaw) = buf[OFFSET_NUM_CLUES + 1] + 256 * buf[OFFSET_NUM_CLUES + 2]
       /\ RequestedPolicy \in Policies
          => /\ \A k \in 1..Len(result.across) :
                  AcrossCluePos(RequestedPolicy, k) > Len(result.cluesRaw)
                  => result.across[k].clue = <<>>
             /\ \A k \in 1..Len(result.down) :
                  DownCluePos(RequestedPolicy, k) > Len(result.cluesRaw)
                  => result.down[k].clue = <<>>

\* the grid of three columns and one row with a single clue, across then
\* down: across entry 1 has the clue, down entries 1, 2, 3 have none
C9_Witness ==
    /\ Decoded
    /\ result.width = 3 /\ result.height = 1
    /\ \A i \in GridIndices : IsOpen(i)
    /\ result.clueOrder = "across-down"
    /\ Len(result.cluesRaw) = 1
    /\ Len(result.across) = 1
    /\ result.across[1].number = 1
    /\ result.across[1].clue = result.cluesRaw[1]
    /\ result.cluesRaw[1] # <<>>
    /\ [k \in 1..Len(result.down) |-> result.down[k].number] = <<1, 2, 3>>
    /\ \A k \in 1..3 : result.down[k].clue = <<>>

\* C10: whenever the buffer holds a width byte and a height byte and one of
\* them is 0, decoding fails with the missing-dimensions error, whatever
\* the rest of the buffer contains.
C10_ZeroDimensionFailsMissingDimensions ==
    (/\ pc = "done"
     /\ Len(buf) > OFFSET_HEIGHT
     /\ (buf[OFFSET_WIDTH + 1] = 0 \/ buf[OFFSET_HEIGHT + 1] = 0))
    => result = Throw(ERR_DIMENSIONS)

\* the header fields of the decoded buffer, where the buffer holds them
WidthByte == buf[OFFSET_WIDTH + 1]
HeightByte == buf[OFFSET_HEIGHT + 1]
ClueCount == buf[OFFSET_NUM_CLUES + 1] + 256 * buf[OFFSET_NUM_CLUES + 2]
GridEnd == OFFSET_SOLUTION + 2 * WidthByte * HeightByte

\* C11: whenever the buffer holds a non-zero width byte and a non-zero
\* height byte, decoding fails with the truncated-grid error exactly when the
\* buffer is shorter than 0x34 + 2 * width * height bytes.
C11_TruncatedGridExactlyWhenShort ==
    (/\ pc = "done"
     /\ Len(buf) > OFFSET_HEIGHT
     /\ WidthByte > 0 /\ HeightByte > 0)
    => (result = Throw(ERR_TRUNCATED) <=> Len(buf) < GridEnd)

\* a buffer with the whole header, non-zero dimensions and both grid planes
HasGrid ==
    /\ Len(buf) >= OFFSET_SOLUTION
    /\ WidthByte > 0 /\ HeightByte > 0
    /\ Len(buf) >= GridEnd

\* C12: once the grid check has passed, decoding fails with the
\* unterminated-string error exactly when fewer than 3 + clueCount NUL bytes
\* follow the grid planes, and succeeds otherwise; no notepad string is
\* needed and a terminator may be the last byte of the buffer.
C12_UnterminatedIffMissingNul ==
    (pc = "done" /\ HasGrid)
    => /\ result = Throw(ERR_UNTERMINATED) <=> NulsFrom(buf, GridEnd) < 3 + ClueCount
       /\ NulsFrom(buf, GridEnd) >= 3 + ClueCount => result.ok

\* a decoded file with a clue whose terminator is the last byte of the buffer
C12_Witness ==
    /\ Decoded
    /\ HasGrid
    /\ ClueCount >= 1
    /\ NulsFrom(buf, GridEnd) = 3 + ClueCount
    /\ buf[Len(buf)] = NUL

\* C13: every decode ends with a complete puzzle or with one of the three
\* format errors, whatever the buffer, short buffers included.
FormatErrors == {ERR_DIMENSIONS, ERR_TRUNCATED, ERR_UNTERMINATED}

C13_OnlyThreeErrors ==
    pc = "done" => (result.ok \/ result.error \in FormatErrors)

(***************************************************************************)
(* Properties of file loads and navigation (SpecSession, SpecEdit)         *)
(***************************************************************************)
\* C14: a file load whose decode fails changes nothing: neither the request
\* of the read nor the failed decode alters the installed puzzle, the
\* letters, the statuses, the owners, the reveal latches, the active cell
\* or the mode.
C14_FailedLoadChangesNothing ==
    [][ (\/ last'.ev = "loadfail"
         \/ (last'.ev = "file" /\ ~parsePuz(pending'[Len(pending')].bytes,
                                       [clueOrder |-> pending'[Len(pending')].clueOrder]).ok))
        => UNCHANGED <<puz, cells, status, owners, revealedAcross, revealedDown,
                       activeIndex, mode>> ]_vars

\* a decode has failed while a puzzle with a letter, a checked cell and a
\* revealed clue was installed
C14_Witness ==
    /\ last.ev = "loadfail"
    /\ puz # NullPuz
    /\ activeIndex # Null
    /\ \E k \in 1..Len(cells) : cells[k] # <<>> /\ status[k] # "unchecked"
    /\ \E k \in 1..Len(revealedAcross) : revealedAcross[k]

\* C20: right after every completed file load the active cell is none and
\* the mode is across.
C20_LoadResetsNavigation ==
    last.ev = "load" => (activeIndex = Null /\ mode = "across")

\* the entries of an array that hold cell i, and the first cell of an entry
Holds(arr, k, i) == \E j \in 1..Len(arr[k].cells) : arr[k].cells[j].index = i
FirstCell(arr, k) == arr[k].cells[1].index

\* C15: Tab pressed on a cell of across entry k in mode across moves the
\* active cell to the first cell of across entry k+1 and keeps the mode, or
\* from the last across entry to the first cell of the first down entry with
\* the mode set to down; in mode down the same with across and down swapped.
C15_TabMovesToNextEntry ==
    [][ last'.ev = "Tab"
        => LET i == last'.idx
           IN  /\ mode = "across"
                  => \A k \in 1..Len(puz.across) :
                        Holds(puz.across, k, i)
                        => IF k < Len(puz.across)
                           THEN /\ activeIndex' = FirstCell(puz.across, k + 1)
                                /\ mode' = "across"
                           ELSE /\ activeIndex' = FirstCell(puz.down, 1)
                                /\ mode' = "down"
               /\ mode = "down"
                  => \A k \in 1..Len(puz.down) :
                        Holds(puz.down, k, i)
                        => IF k < Len(puz.down)
                           THEN /\ activeIndex' = FirstCell(puz.down, k + 1)
                                /\ mode' = "down"
                           ELSE /\ activeIndex' = FirstCell(puz.across, 1)
                                /\ mode' = "across" ]_vars

\* Tab pressed on a later cell of the last of three across entries has
\* moved the cursor to the first cell of the first down entry in mode down
C15_Witness ==
    /\ last.ev = "Tab"
    /\ mode = "down"
    /\ Len(puz.across) = 3
    /\ Holds(puz.across, 3, last.idx)
    /\ FirstCell(puz.across, 3) # last.idx
    /\ activeIndex = FirstCell(puz.down, 1)
    /\ activeIndex # last.idx

\* C16: the open cells a directional key can reach from cell i
InDirection(key, i) ==
    LET w == puz.width
    IN  {j \in OpenCells :
           IF key = "ArrowRight" THEN j \div w = i \div w /\ j > i
           ELSE IF key = "ArrowLeft" THEN j \div w = i \div w /\ j < i
           ELSE IF key = "ArrowDown" THEN j % w = i % w /\ j > i
           ELSE j % w = i % w /\ j < i}

Nearest(key, i) ==
    CHOOSE j \in InDirection(key, i) :
        \A x \in InDirection(key, i) :
            IF key \in {"ArrowRight", "ArrowDown"} THEN j <= x ELSE j >= x

ArrowKeys == {"ArrowRight", "ArrowLeft", "ArrowDown", "ArrowUp"}

\* C16: a directional key always sets the mode to its axis, and moves the
\* active cell to the nearest open cell of the row (left, right) or column
\* (up, down) in its direction; with no open cell that way the active cell
\* stays where it is.
C16_ArrowMovesToNearestOpenCell ==
    [][ last'.ev \in ArrowKeys
        => /\ mode' = IF last'.ev \in {"ArrowRight", "ArrowLeft"} THEN "across" ELSE "down"
           /\ activeIndex' = IF InDirection(last'.ev, last'.idx) = {}
                             THEN activeIndex
                             ELSE Nearest(last'.ev, last'.idx) ]_vars

\* ArrowRight has jumped over a block, and from where the cursor now stands
\* no open cell lies further right
C16_Witness ==
    /\ last.ev = "ArrowRight"
    /\ mode = "across"
    /\ activeIndex > last.idx + 1
    /\ \E j \in (last.idx + 1)..(activeIndex - 1) : puz.grid[j + 1].isBlock
    /\ InDirection("ArrowRight", activeIndex) = {}

\* C17: a click on clue k of a direction sets the mode to that direction,
\* the active cell to the first cell of entry k and the entry's reveal
\* latch; a latch that is set stays set until a puzzle is loaded, and a
\* latch is set by no event other than the click on its clue.
ClueClicks == {"clueAcross", "clueDown"}

C17_ClueClickRevealsForGood ==
    [][ /\ last'.ev = "clueAcross"
           => /\ mode' = "across"
              /\ activeIndex' = FirstCell(puz.across, last'.idx + 1)
              /\ revealedAcross'[last'.idx + 1]
        /\ last'.ev = "clueDown"
           => /\ mode' = "down"
              /\ activeIndex' = FirstCell(puz.down, last'.idx + 1)
              /\ revealedDown'[last'.idx + 1]
        /\ last'.ev # "load"
           => /\ Len(revealedAcross') = Len(revealedAcross)
              /\ Len(revealedDown') = Len(revealedDown)
              /\ \A k \in 1..Len(revealedAcross) :
                    /\ revealedAcross[k] => revealedAcross'[k]
                    /\ (~revealedAcross[k] /\ revealedAcross'[k])
                       => (last'.ev = "clueAcross" /\ last'.idx = k - 1)
              /\ \A k \in 1..Len(revealedDown) :
                    /\ revealedDown[k] => revealedDown'[k]
                    /\ (~revealedDown[k] /\ revealedDown'[k])
                       => (last'.ev = "clueDown" /\ last'.idx = k - 1)
        /\ last'.ev = "load"
           => /\ \A k \in 1..Len(revealedAcross') : ~revealedAcross'[k]
              /\ \A k \in 1..Len(revealedDown') : ~revealedDown'[k] ]_vars

\* the second across clue and a down clue were clicked, the first across
\* clue was not, and both latches are still set after a later event on a
\* grid that holds a letter
C17_Witness ==
    /\ last.ev \notin ClueClicks
    /\ \E k \in 1..Len(cells) : cells[k] # <<>>
    /\ Len(revealedAcross) >= 2
    /\ revealedAcross[2] /\ ~revealedAcross[1]
    /\ \E k \in 1..Len(revealedDown) : revealedDown[k]

(***************************************************************************)
(* Properties of typing (SpecType)                                         *)
(***************************************************************************)
\* the letters of a typed text, and its first letter in upper case
LetterPositions(value) ==
    {j \in 1..Len(value) : value[j] \in (65..90) \cup (97..122)}

FirstLetter(value) ==
    LET j == CHOOSE j \in LetterPositions(value) :
                 \A x \in LetterPositions(value) : j <= x
    IN  IF value[j] >= 97 THEN value[j] - 32 ELSE value[j]

\* the cell the cursor goes to after a letter typed at cell i in mode m
AfterLetter(m, i) ==
    LET key == IF m = "across" THEN "ArrowRight" ELSE "ArrowDown"
    IN  IF InDirection(key, i) = {} THEN i ELSE Nearest(key, i)

\* C18: a change event that brings a text with a letter to an unlocked cell
\* stores in the cell exactly one letter, the first letter of the text in
\* upper case, keeps the mode, and moves the active cell to the next open
\* cell of the row (mode across) or column (mode down), or leaves it on the
\* cell when there is none.
C18_LetterStoredThenAdvance ==
    [][ \A value \in Values :
          (/\ onCellChange(activeIndex, value)
           /\ status[activeIndex + 1] # "correct"
           /\ LetterPositions(value) # {})
          => /\ cells'[activeIndex + 1] = <<FirstLetter(value)>>
             /\ mode' = mode
             /\ activeIndex' = AfterLetter(mode, activeIndex) ]_vars

\* a letter typed in mode across was stored and the cursor jumped over the
\* block to the right of the cell; the cell after it has no successor
C18_Witness ==
    /\ last.ev = "change"
    /\ mode = "across"
    /\ cells[last.idx + 1] # <<>>
    /\ status[last.idx + 1] # "correct"
    /\ activeIndex = last.idx + 2
    /\ puz.grid[last.idx + 2].isBlock
    /\ AfterLetter("across", activeIndex) = activeIndex

\* C19: between checks and loads, a cell marked incorrect stays incorrect
\* as long as it holds a letter, whatever is typed into it, and becomes
\* unchecked in the step that empties it; no event but a check makes a cell
\* correct.
C19_IncorrectUntilClearedOrChecked ==
    [][ \A k \in 1..Len(status) :
          /\ (status[k] = "incorrect" /\ last'.ev \notin {"check", "load"})
             => status'[k] = IF cells'[k] = <<>> THEN "unchecked" ELSE "incorrect"
          /\ (last'.ev # "load" /\ status[k] # "correct" /\ status'[k] = "correct")
             => last'.ev = "check" ]_vars

\* the solution letter has just been typed over a wrong letter in a cell
\* marked incorrect, and the cell is still marked incorrect
C19_Witness ==
    /\ last.ev = "change"
    /\ status[last.idx + 1] = "incorrect"
    /\ cells[last.idx + 1] = puz.grid[last.idx + 1].solution

(***************************************************************************)
(* Properties of reloading (SpecReload, SpecSession)                       *)
(***************************************************************************)
\* C21: right after every completed file load every cell's letter is empty,
\* every status is unchecked, every owner is none, every reveal latch is
\* false and every team's score is 0.
C21_LoadDiscardsSession ==
    last.ev = "load"
    => /\ \A k \in 1..Len(cells) : cells[k] = <<>>
       /\ \A k \in 1..Len(status) : status[k] = "unchecked"
       /\ \A k \in 1..Len(owners) : owners[k] = Null
       /\ \A k \in 1..Len(revealedAcross) : ~revealedAcross[k]
       /\ \A k \in 1..Len(revealedDown) : ~revealedDown[k]
       /\ \A t \in TeamIds : scores[t] = 0

\* a load has completed in a session that already had teams, which can be
\* added only once an earlier load has installed a puzzle
C21_Witness ==
    /\ last.ev = "load"
    /\ Len(teams) = 2
    /\ selectedTeamId # Null
    /\ pending = <<>>

\* C22: when the last of the pending reads resolves and installs its
\* puzzle, that puzzle is the one of the file picked last: no decodable file
\* has been picked after the file installed.
C22_LatestFileWins ==
    (last.ev = "load" /\ pending = <<>>) => ~last.superseded

(***************************************************************************)
(* Ownership of the letters (SpecEdit)                                     *)
(***************************************************************************)
\* a step in which onCellChange stores a letter in an unlocked cell
LetterWritten ==
    /\ last'.ev = "change"
    /\ status[last'.idx + 1] # "correct"
    /\ cells'[last'.idx + 1] # <<>>

\* C23 as stated: in every reachable state every cell that holds a letter
\* has an owner, that is, a non-empty letter implies an owner other than none.
C23_LetterHasOwner ==
    \A k \in 1..Len(cells) : cells[k] # <<>> => owners[k] # Null

\* C23, amended: a step that writes a letter sets the cell's owner to the
\* selected team, which is a registered team's id when a team is selected
\* and none when no team has been selected yet; so in every reachable state
\* the owner of a cell that holds a letter is none or a registered team.
C23_LetterOwnerIsSelectedTeamOrNone ==
    /\ [](\A k \in 1..Len(cells) :
             cells[k] # <<>> => owners[k] \in TeamIds \cup {Null})
    /\ [](selectedTeamId \in TeamIds \cup {Null})
    /\ [][ LetterWritten => owners'[last'.idx + 1] = selectedTeamId ]_vars

\* a letter has just been typed for the selected team while another cell
\* holds a letter that has no owner
C23_Witness ==
    /\ last.ev = "change"
    /\ cells[last.idx + 1] # <<>>
    /\ selectedTeamId # Null
    /\ owners[last.idx + 1] = selectedTeamId
    /\ \E k \in 1..Len(cells) : cells[k] # <<>> /\ owners[k] = Null

\* C24: in every reachable state every cell without a letter has status
\* unchecked and owner none, whichever way it was emptied.
C24_EmptyCellIsUncheckedAndUnowned ==
    /\ Len(status) = Len(cells)
    /\ Len(owners) = Len(cells)
    /\ \A k \in 1..Len(cells) :
          cells[k] = <<>> => status[k] = "unchecked" /\ owners[k] = Null

\* a change event has left its cell empty while a team is selected and
\* another cell is marked incorrect and owned
C24_Witness ==
    /\ last.ev = "change"
    /\ cells[last.idx + 1] = <<>>
    /\ selectedTeamId # Null
    /\ \E k \in 1..Len(cells) : status[k] = "incorrect" /\ owners[k] # Null

\* C25: a step changes the owner of a cell only by writing a letter into
\* it, which makes the selected team its owner even if another team owned
\* it, or by emptying it, which leaves it without an owner; selecting a team
\* changes no owner, and a cell that is correct before and after a step
\* keeps its owner.
C25_OwnerIsTeamSelectedAtTyping ==
    [][ /\ LetterWritten => owners'[last'.idx + 1] = selectedTeamId
        /\ Len(owners') = Len(owners)
           => \A k \in 1..Len(owners) :
                 \/ owners'[k] = owners[k]
                 \/ owners'[k] = Null /\ cells'[k] = <<>>
                 \/ LetterWritten /\ k = last'.idx + 1
        /\ last'.ev = "team" => owners' = owners /\ cells' = cells
        /\ \A k \in 1..Len(status) :
              (Len(status') = Len(status) /\ status[k] = "correct"
                 /\ status'[k] = "correct")
              => owners'[k] = owners[k] ]_vars

\* two teams own letters, one of them in a correct cell, and the team
\* that typed last has been selected after the other one typed
C25_Witness ==
    /\ last.ev = "change"
    /\ selectedTeamId # Null
    /\ owners[last.idx + 1] = selectedTeamId
    /\ \E k \in 1..Len(owners) : owners[k] \notin {Null, selectedTeamId}
    /\ \E k \in 1..Len(owners) : owners[k] # Null /\ status[k] = "correct"

(***************************************************************************)
(* The installed puzzle and its arrays (SpecSession)                       *)
(***************************************************************************)
\* C26: in every state with a puzzle installed, the letters, the status and
\* the owners have length width*height of that puzzle and the reveal arrays
\* have the lengths of its across and down lists, so no state mixes the
\* puzzle of one load with the arrays of another.
C26_ArraysFitInstalledPuzzle ==
    puz # NullPuz
    => /\ Len(puz.grid) = puz.width * puz.height
       /\ Len(cells) = puz.width * puz.height
       /\ Len(status) = puz.width * puz.height
       /\ Len(owners) = puz.width * puz.height
       /\ Len(revealedAcross) = Len(puz.across)
       /\ Len(revealedDown) = Len(puz.down)

\* the 2x2 puzzle has been installed by a read that was still pending when
\* a later file was picked, after that later file's read had resolved too
C26_Witness ==
    /\ last.ev = "load"
    /\ last.superseded
    /\ pending = <<>>
    /\ puz.width * puz.height = 4
    /\ Len(revealedAcross) = 2

(***************************************************************************)
(* Backspace, Delete and Space (SpecErase)                                 *)
(***************************************************************************)
\* the arrow key that moves against the direction of mode m
BackKey(m) == IF m = "across" THEN "ArrowLeft" ELSE "ArrowUp"

\* every cell but the cell i keeps its letter, its status and its owner
OthersKept(i) ==
    /\ Len(cells') = Len(cells)
    /\ Len(status') = Len(status)
    /\ Len(owners') = Len(owners)
    /\ \A k \in 1..Len(cells) :
          k # i + 1 => /\ cells'[k] = cells[k]
                       /\ status'[k] = status[k]
                       /\ owners'[k] = owners[k]

\* the cell i is cleared and every other cell kept
ClearedOnly(i) ==
    /\ cells' = [cells EXCEPT ![i + 1] = <<>>]
    /\ status' = [status EXCEPT ![i + 1] = "unchecked"]
    /\ owners' = [owners EXCEPT ![i + 1] = Null]

\* a Backspace on the active cell, which is not correct and holds no letter
BackspaceOnEmpty ==
    /\ onCellKeyDown(activeIndex, "Backspace")
    /\ status[activeIndex + 1] # "correct"
    /\ cells[activeIndex + 1] = <<>>

C28_BackspaceOnLetterStaysPut ==
    [][ /\ (/\ onCellKeyDown(activeIndex, "Backspace")
            /\ status[activeIndex + 1] # "correct"
            /\ cells[activeIndex + 1] # <<>>)
           => UNCHANGED <<puz, activeIndex, mode, cells, status, owners>>
        /\ (/\ onCellChange(activeIndex, <<>>)
            /\ status[activeIndex + 1] # "correct"
            /\ cells[activeIndex + 1] # <<>>)
           => /\ UNCHANGED <<puz, activeIndex, mode>>
              /\ ClearedOnly(activeIndex) ]_vars

\* Backspace has been pressed on a cell that holds an owned letter and is
\* not correct, with a lettered cell before it in the direction of the mode
C28_Witness ==
    /\ last.ev = "Backspace"
    /\ activeIndex = last.idx
    /\ cells[last.idx + 1] # <<>>
    /\ owners[last.idx + 1] # Null
    /\ status[last.idx + 1] # "correct"
    /\ InDirection(BackKey(mode), last.idx) # {}
    /\ cells[Nearest(BackKey(mode), last.idx) + 1] # <<>>

\* C29: Delete on a cell that is not correct empties the cell, sets its
\* status to unchecked and its owner to none, and changes nothing else:
\* not the active cell, not the mode, not the puzzle, and no other cell's
\* letter, status or owner.
C29_DeleteClearsInPlace ==
    [][ (/\ onCellKeyDown(activeIndex, "Delete")
         /\ status[activeIndex + 1] # "correct")
        => /\ ClearedOnly(activeIndex)
           /\ UNCHANGED <<puz, activeIndex, mode, teams, selectedTeamId,
                          revealedAcross, revealedDown>> ]_vars

\* Delete has emptied the active cell while another cell holds an owned
\* letter marked correct
C29_Witness ==
    /\ last.ev = "Delete"
    /\ activeIndex = last.idx
    /\ cells[last.idx + 1] = <<>>
    /\ status[last.idx + 1] = "unchecked"
    /\ \E k \in 1..Len(cells) :
          cells[k] # <<>> /\ owners[k] # Null /\ status[k] = "correct"

\* C30: Space turns mode across into down and down into across and leaves
\* the active cell, the puzzle and every letter, status and owner as they
\* were, on a correct cell as on any other; a second Space therefore
\* restores the mode as well.
C30_SpaceTogglesModeOnly ==
    [][ onCellKeyDown(activeIndex, " ")
        => /\ mode' # mode
           /\ mode' \in {"across", "down"}
           /\ mode' = "down" <=> mode = "across"
           /\ UNCHANGED <<puz, activeIndex, cells, status, owners, teams,
                          selectedTeamId, revealedAcross, revealedDown>> ]_vars

\* Space pressed on a correct, owned cell has brought the mode back to
\* across, which only an earlier Space had left
C30_Witness ==
    /\ last.ev = " "
    /\ mode = "across"
    /\ activeIndex = last.idx
    /\ status[last.idx + 1] = "correct"
    /\ owners[last.idx + 1] # Null

(***************************************************************************)
(* Correct cells, the cursor and the teams                                 *)
(***************************************************************************)
\* C31: in every reachable state a cell whose status is correct holds
\* exactly the solution letter of that cell of the installed puzzle.
C31_CorrectCellHoldsSolution ==
    \A k \in 1..Len(status) :
        status[k] = "correct"
        => /\ puz # NullPuz
           /\ k <= Len(cells)
           /\ ~puz.grid[k].isBlock
           /\ cells[k] = puz.grid[k].solution

\* Delete has been pressed on a cell that is correct, next to a cell that
\* holds a letter marked incorrect
C31_Witness ==
    /\ last.ev = "Delete"
    /\ status[last.idx + 1] = "correct"
    /\ cells[last.idx + 1] = puz.grid[last.idx + 1].solution
    /\ \E k \in 1..Len(status) : status[k] = "incorrect" /\ cells[k] # <<>>

\* C32: in every reachable state with a puzzle installed the active cell is
\* none or the index of a non-block cell inside the grid of the installed
\* puzzle, also after a second puzzle of another size or block layout has
\* been loaded.
C32_ActiveCellIsOpenCellOfInstalledPuzzle ==
    puz # NullPuz => (activeIndex = Null \/ activeIndex \in OpenCells)

\* where a navigation key pressed on cell i in mode m leaves the cursor and
\* the mode, computed from the installed puzzle alone
NavTarget(key, m, i) ==
    IF key = " "
    THEN [mode |-> IF m = "across" THEN "down" ELSE "across", idx |-> i]
    ELSE IF key = "Tab"
    THEN LET arr == IF m = "across" THEN puz.across ELSE puz.down
             other == IF m = "across" THEN puz.down ELSE puz.across
             k == CHOOSE k \in 1..Len(arr) : Holds(arr, k, i)
         IN  IF k < Len(arr)
             THEN [mode |-> m, idx |-> FirstCell(arr, k + 1)]
             ELSE [mode |-> IF m = "across" THEN "down" ELSE "across",
                   idx |-> FirstCell(other, 1)]
    ELSE [mode |-> IF key \in {"ArrowRight", "ArrowLeft"} THEN "across" ELSE "down",
          idx |-> IF InDirection(key, i) = {} THEN i ELSE Nearest(key, i)]

\* C33: an arrow key, Tab, Space or a clue click changes no cell's letter,
\* status or owner, and the cell and mode it leaves the cursor in are a
\* function of the puzzle, the mode and the cell alone, so they are the
\* same whatever the status of the cells is, correct cells included.
C33_NavigationIgnoresStatus ==
    [][ /\ \A key \in NavKeys :
              onCellKeyDown(activeIndex, key)
              => /\ UNCHANGED <<puz, cells, status, owners>>
                 /\ mode' = NavTarget(key, mode, activeIndex).mode
                 /\ activeIndex' = NavTarget(key, mode, activeIndex).idx
        /\ \A dir \in {"across", "down"} :
              \A i \in 0..(Len(cells) - 1) :
                 onClueClick(dir, i)
                 => /\ UNCHANGED <<puz, cells, status, owners>>
                    /\ mode' = dir
                    /\ activeIndex' =
                          FirstCell(IF dir = "across" THEN puz.across ELSE puz.down,
                                    i + 1) ]_vars

\* an arrow key has moved the cursor from a cell marked incorrect onto an
\* owned cell marked correct
C33_Witness ==
    /\ last.ev \in ArrowKeys
    /\ activeIndex # last.idx
    /\ status[last.idx + 1] = "incorrect"
    /\ status[activeIndex + 1] = "correct"
    /\ owners[activeIndex + 1] # Null

(***************************************************************************)
(* The Tab cycle (SpecNav)                                                 *)
(***************************************************************************)
\* the navigation state at the first cell of entry k of direction dir
EntryStart(dir, k) ==
    [mode |-> dir,
     idx |-> FirstCell(IF dir = "across" THEN puz.across ELSE puz.down, k)]

EntryStarts ==
    {EntryStart("across", k) : k \in 1..Len(puz.across)}
        \cup {EntryStart("down", k) : k \in 1..Len(puz.down)}

\* the navigation states n presses of Tab lead through, starting from nav
RECURSIVE TabOrbit(_, _)
TabOrbit(nav, n) ==
    IF n = 0 THEN <<>>
    ELSE LET nx == NavTarget("Tab", nav.mode, nav.idx)
         IN  <<nx>> \o TabOrbit(nx, n - 1)

\* the entries after entry k of direction dir, then all entries of the
\* other direction, then the entries of dir up to k, each in array order
TabRound(dir, k) ==
    LET other == IF dir = "across" THEN "down" ELSE "across"
        nd == Len(IF dir = "across" THEN puz.across ELSE puz.down)
        no == Len(IF dir = "across" THEN puz.down ELSE puz.across)
    IN  [j \in 1..(nd - k) |-> EntryStart(dir, k + j)]
          \o [j \in 1..no |-> EntryStart(other, j)]
          \o [j \in 1..k |-> EntryStart(dir, j)]

\* C34: every Tab pressed at the first cell of an entry in that entry's
\* direction leads to the first cell of the next entry of the direction,
\* or of the first entry of the other direction after the last one; so
\* from the first cell of any entry, |across| + |down| presses of Tab go
\* through the first cell of every across and every down entry exactly
\* once, in array order within each direction, and end in the navigation
\* state they started from.
C34_TabVisitsEveryEntryOnce ==
    /\ [](puz # NullPuz
           => \A dir \in {"across", "down"} :
                \A k \in 1..Len(IF dir = "across" THEN puz.across ELSE puz.down) :
                   LET n == Len(puz.across) + Len(puz.down)
                       orbit == TabOrbit(EntryStart(dir, k), n)
                   IN  /\ orbit = TabRound(dir, k)
                       /\ orbit[n] = EntryStart(dir, k)
                       /\ {orbit[j] : j \in 1..n} = EntryStarts
                       /\ Cardinality(EntryStarts) = n)
    /\ [][ (/\ onCellKeyDown(activeIndex, "Tab")
            /\ [mode |-> mode, idx |-> activeIndex] \in EntryStarts)
           => [mode |-> mode', idx |-> activeIndex']
                 = NavTarget("Tab", mode, activeIndex) ]_vars

\* Tab pressed at the first cell of the last of two or more down entries
\* has brought the cursor back to the first across entry of a puzzle with
\* two or more across entries
C34_Witness ==
    /\ last.ev = "Tab"
    /\ mode = "across"
    /\ Len(puz.across) >= 2
    /\ Len(puz.down) >= 2
    /\ last.idx = FirstCell(puz.down, Len(puz.down))
    /\ activeIndex = FirstCell(puz.across, 1)

(***************************************************************************)
(* Repeated checks (SpecEdit)                                              *)
(***************************************************************************)
\* C35: a check that follows a check with no event in between leaves the
\* status array as the first check left it, and every cell that is correct
\* before a check is correct after it.
C35_CheckIdempotentAndKeepsCorrect ==
    [][ checkPuzzle
        => /\ last.ev = "check" => status' = status
           /\ Len(status') = Len(status)
           /\ \A k \in 1..Len(status) :
                 status[k] = "correct" => status'[k] = "correct" ]_vars

\* a check has left a cell of one team correct and a lettered cell of
\* another team incorrect
C35_Witness ==
    /\ last.ev = "check"
    /\ \E k, j \in 1..Len(status) :
          /\ status[k] = "correct" /\ owners[k] # Null
          /\ status[j] = "incorrect" /\ cells[j] # <<>>
          /\ owners[j] \notin {Null, owners[k]}

(***************************************************************************)
(* The team registry (SpecReload)                                          *)
(***************************************************************************)
\* C36: in every reachable state the ids of the registered teams are
\* pairwise distinct, the selected team is none or a registered team, every
\* owner is none or a registered team, and the score mapping has exactly
\* the registered teams as keys; a load changes neither the registry nor
\* the selection.
C36_TeamReferencesStayValid ==
    /\ [](/\ \A i, j \in 1..Len(teams) : teams[i].id = teams[j].id => i = j
          /\ selectedTeamId \in TeamIds \cup {Null}
          /\ \A k \in 1..Len(owners) : owners[k] \in TeamIds \cup {Null}
          /\ DOMAIN scores = TeamIds)
    /\ [][ (\E k \in 1..Len(pending) : onFileResolve(k))
           => teams' = teams /\ selectedTeamId' = selectedTeamId ]_vars

\* a puzzle has been installed by a read that was pending while two teams
\* were registered, and the team added last is still the selected one
C36_Witness ==
    /\ last.ev = "load"
    /\ last.superseded
    /\ Len(teams) = 2
    /\ selectedTeamId = teams[2].id

(***************************************************************************)
(* Input without a letter (SpecEdit)                                       *)
(***************************************************************************)
\* the text holds a character that upper-casing turns into a letter A-Z
HasLetter(value) ==
    \E j \in 1..Len(value) : value[j] \in (65..90) \cup (97..122) \cup {223}

\* C37: a change event that brings a text without any letter to an unlocked
\* cell leaves the cell without a letter and without an owner, turns an
\* incorrect mark into unchecked, keeps the active cell, the mode and every
\* other cell; and in every reachable state a cell holds nothing or exactly
\* one letter A-Z.
C37_InputWithoutLetterClearsCell ==
    /\ [](\A k \in 1..Len(cells) :
             cells[k] = <<>> \/ (Len(cells[k]) = 1 /\ cells[k][1] \in 65..90))
    /\ [][ \A value \in Values :
             (/\ onCellChange(activeIndex, value)
              /\ status[activeIndex + 1] # "correct"
              /\ ~HasLetter(value))
             => /\ cells'[activeIndex + 1] = <<>>
                /\ owners'[activeIndex + 1] = Null
                /\ status'[activeIndex + 1] = "unchecked"
                /\ OthersKept(activeIndex)
                /\ UNCHANGED <<puz, activeIndex, mode>> ]_vars

\* a change event has left its cell empty and the cursor on it, although a
\* team is selected and a letter would have moved the cursor on; another
\* cell holds an owned correct letter
C37_Witness ==
    /\ last.ev = "change"
    /\ activeIndex = last.idx
    /\ cells[last.idx + 1] = <<>>
    /\ owners[last.idx + 1] = Null
    /\ selectedTeamId # Null
    /\ AfterLetter(mode, last.idx) # last.idx
    /\ \E k \in 1..Len(cells) :
          cells[k] # <<>> /\ owners[k] # Null /\ status[k] = "correct"

(***************************************************************************)
(* The two entry builders (SpecParse)                                      *)
(***************************************************************************)
\* an entry without its clue
Unclued(arr) == [k \in 1..Len(arr) |-> [number |-> arr[k].number, cells |-> arr[k].cells]]

\* C38: for every decoded grid the single scan of the current parsePuz and
\* the separate passes of the earlier parsePuz build the same across and
\* down arrays, entry for entry with the same number and the same cells;
\* and when the clue order is across-down and the file has at least
\* |across| + |down| clues, the earlier parser decodes the file too and
\* gives every entry the same clue.
C38_BuildersAgree ==
    Decoded
    => LET e == earlierEntries(result.grid, result.width, result.height)
           old == earlierParsePuz(buf)
       IN  /\ Unclued(e.across) = Unclued(result.across)
           /\ Unclued(e.down) = Unclued(result.down)
           /\ (/\ result.clueOrder = "across-down"
               /\ Len(result.cluesRaw) >= Len(result.across) + Len(result.down))
              => /\ old.ok
                 /\ old.across = result.across
                 /\ old.down = result.down
                 /\ old.grid = result.grid

\* a grid with a block, two across and two down entries and a clue for
\* each has been decoded under the across-down order
C38_Witness ==
    /\ Decoded
    /\ result.clueOrder = "across-down"
    /\ Len(result.across) = 2
    /\ Len(result.down) = 2
    /\ Len(result.cluesRaw) = 4
    /\ \E k \in 1..Len(result.grid) : result.grid[k].isBlock
    /\ result.down[2].clue # <<>>
====
